---- MODULE Spec2Model ----
(***************************************************************************)
(* A model of binc-rs: the change / revision / document engine             *)
(* (binc/src/change.rs, revision.rs, document.rs), the wire protocol       *)
(* (binc/src/network_protocol.rs) and the server loop (cli/src/server.rs). *)
(*                                                                         *)
(* Strings and byte vectors are sequences of byte values 0..255.           *)
(***************************************************************************)
EXTENDS Integers, Sequences, FiniteSets, TLC

VARIABLES
    \* ---- Document (document.rs:24-34) ----
    repository,       \* Document.repository.revisions : Seq(Revision)
    nodes,            \* Document.nodes : NodeStore
    pending_changes,  \* Document.pending_changes : Revision
    undo_changes,     \* Document.undo_changes : Seq(Change)
    panicked,         \* a call on the document unwound with a panic
    node_id_generator, \* Document.node_id_generator : NodeIdGenerator
    issued,           \* the ids Document::next_id has returned, in order
    \* ---- Change::apply on a bare NodeStore ----
    store,            \* the NodeStore the changes are applied to
    steps,            \* number of changes applied to it so far
    \* ---- a caller that undoes everything and redoes it ----
    phase,            \* "edit", "undo", "redo"
    saved,            \* the node store when the first undo was called
    calls,            \* undo calls made
    redone,           \* redo calls made
    \* ---- a stream of framed changes (Revision::write / Change::read) ----
    wire,             \* the bytes written so far
    sent,             \* the changes written, in order
    received,         \* the results of Change::read so far, in order
    \* ---- one client connection to the server (server.rs, client.rs) ----
    store_files,      \* the store's directory: path -> revisions of the file
    c2s,              \* bytes written by the client that the server has yet to read
    s2c,              \* bytes written by the server, not yet read by the client
    conn,             \* "open", or how handle_connection returned: "Ok", "Err"
    client,           \* "idle", "waiting" (inside request), "dropped", "panicked"
    asked,            \* the request of the latest Client::request call
    answer,           \* what that call returned, once it has returned
    served,           \* the latest request the server read, the store it found
                      \* and the response it wrote
    \* ---- the connections the listener holds for the server (server.rs:12-26) ----
    backlog,          \* connections made and not yet accepted, oldest first
    current,          \* number of the connection the server is servicing
    \* ---- one value written to bytes and read back ----
    subject,          \* the revision or message that is written
    encoded,          \* the bytes, as written or as damaged afterwards
    decoded           \* the result of reading them

docVars == <<repository, nodes, pending_changes, undo_changes, panicked,
             node_id_generator, issued>>
applyVars == <<store, steps>>
scriptVars == <<phase, saved, calls, redone>>
codecVars == <<wire, sent, received>>
serverVars == <<store_files, c2s, s2c, conn, client, asked, answer, served>>
acceptVars == <<backlog, current>>
bytesVars == <<subject, encoded, decoded>>

-----------------------------------------------------------------------------
(* Bounds of the model *)

\* total number of changes held by a document (repository + pending + redo)
MaxChanges == 3
\* number of revisions in the repository
MaxRevisions == 1
\* number of changes applied to the bare node store
MaxApplied == 4
\* number of changes written to the byte stream
MaxFrames == 2
MaxFileRevisions == 3
MaxConnections == 2
\* number of calls of Document::next_id
MaxIds == 2

-----------------------------------------------------------------------------
(* Helpers on sequences *)

Last(s) == s[Len(s)]
Front(s) == SubSeq(s, 1, Len(s) - 1)
\* Vec::insert(i, x) with a zero-based index i <= Len(s)
InsertAt(s, i, x) == SubSeq(s, 1, i) \o <<x>> \o SubSeq(s, i + 1, Len(s))
\* Vec::remove(i) with a zero-based index i < Len(s)
RemoveAt(s, i) == SubSeq(s, 1, i) \o SubSeq(s, i + 2, Len(s))
\* iter().position(|x| *x == v): zero-based index of the first v, or -1
Position(s, v) ==
    IF \E i \in 1..Len(s) : s[i] = v
    THEN (CHOOSE i \in 1..Len(s) : s[i] = v /\ \A j \in 1..(i - 1) : s[j] # v) - 1
    ELSE -1

-----------------------------------------------------------------------------
(* Node identifiers and the node store *)

ROOT_NODE == 0
NO_NODE == -1
\* identifiers handed to nodes
NodeIds == {1, 2}

\* strings as UTF-8 bytes: "a", "b", "x", "y"
StrA == <<97>>
StrB == <<98>>
StrX == <<120>>
StrY == <<121>>

\* Node::new_with_id(id)
Node_new_with_id(id) ==
    [id |-> id, parent |-> NO_NODE, children |-> <<>>, attributes |-> <<>>]

\* NodeStore::new(): the arena holds the root node; no name is interned yet
NodeStore_new ==
    [nodes |-> [i \in {ROOT_NODE} |-> Node_new_with_id(ROOT_NODE)],
     attribute_names |-> <<>>]

Contains(s, id) == id \in DOMAIN s.nodes

\* NodeStore::insert(id, node): puts the node, replacing one of the same id
NodeStore_insert(s, id, node) ==
    [s EXCEPT !.nodes = [i \in (DOMAIN s.nodes) \cup {id} |->
                            IF i = id THEN node ELSE s.nodes[i]]]

\* NodeStore::remove(id)
NodeStore_remove(s, id) ==
    [s EXCEPT !.nodes = [i \in (DOMAIN s.nodes) \ {id} |-> s.nodes[i]]]

\* attribute-name interning, insert on first use: the table after a lookup
Intern(names, name) ==
    IF \E i \in 1..Len(names) : names[i] = name THEN names ELSE Append(names, name)
InternIndex(names, name) == Position(Intern(names, name), name)

\* the attribute list of a node with the interned index k set to value v
SetAttribute(attrs, k, v) ==
    IF \E i \in 1..Len(attrs) : attrs[i].key = k
    THEN [i \in 1..Len(attrs) |->
             IF attrs[i].key = k THEN [key |-> k, value |-> v] ELSE attrs[i]]
    ELSE Append(attrs, [key |-> k, value |-> v])

\* Node::set_string_attribute / set_bool_attribute on node id of store s
NodeStore_set_attribute(s, id, attribute, v) ==
    LET names == Intern(s.attribute_names, attribute)
        k == InternIndex(s.attribute_names, attribute)
    IN [nodes |-> [s.nodes EXCEPT ![id].attributes = SetAttribute(@, k, v)],
        attribute_names |-> names]

-----------------------------------------------------------------------------
(* Change (change.rs) *)

ADD_NODE == 1
REMOVE_NODE == 8
ADD_CHILD == 17
REMOVE_CHILD == 18
SET_BOOL == 64
SET_STRING == 65

AddNode(id) == [kind |-> "AddNode", id |-> id]
RemoveNode(id) == [kind |-> "RemoveNode", id |-> id]
AddChild(p, c, i) == [kind |-> "AddChild", parent |-> p, child |-> c, insertion_index |-> i]
RemoveChild(p, c) == [kind |-> "RemoveChild", parent |-> p, child |-> c]
SetString(n, a, v) == [kind |-> "SetString", node |-> n, attribute |-> a, value |-> v]
\* (the bool travels in a field of its own name: a record is compared field by field)
SetBool(n, a, v) == [kind |-> "SetBool", node |-> n, attribute |-> a, flag |-> v]
UnknownChange(t, d) == [kind |-> "UnknownChange", change_type |-> t, data |-> d]

Outcome(s, r) == [store |-> s, result |-> r]

\* Change::apply, arm AddNode
ApplyAddNode(c, s) ==
    Outcome(NodeStore_insert(s, c.id, Node_new_with_id(c.id)),
            IF Contains(s, c.id) THEN "AlreadyExists" ELSE "Ok")

\* Change::apply, arm RemoveNode
ApplyRemoveNode(c, s) ==
    IF Contains(s, c.id) THEN Outcome(NodeStore_remove(s, c.id), "Ok")
    ELSE Outcome(s, "NotFound")

\* Change::apply, arm AddChild: the child's parent field is written before
\* the parent is looked up; Vec::insert panics when the index exceeds the length
ApplyAddChild(c, s) ==
    IF ~Contains(s, c.child) THEN Outcome(s, "NotFound")
    ELSE LET s1 == [s EXCEPT !.nodes[c.child].parent = c.parent]
         IN IF ~Contains(s1, c.parent) THEN Outcome(s1, "NotFound")
            ELSE IF c.insertion_index > Len(s1.nodes[c.parent].children)
                 THEN Outcome(s1, "Panic")
                 ELSE Outcome([s1 EXCEPT !.nodes[c.parent].children =
                                   InsertAt(@, c.insertion_index, c.child)], "Ok")

\* RemoveChild that answers Ok when the parent does not list the child
ApplyRemoveChild_lenient(c, s) ==
    IF ~Contains(s, c.parent) THEN Outcome(s, "NotFound")
    ELSE LET child_index == Position(s.nodes[c.parent].children, c.child)
         IN IF child_index < 0 THEN Outcome(s, "Ok")
            ELSE Outcome([s EXCEPT !.nodes[c.parent].children =
                              RemoveAt(@, child_index)], "Ok")

\* Change::apply, arm RemoveChild
ApplyRemoveChild(c, s) ==
    IF ~Contains(s, c.parent) THEN Outcome(s, "NotFound")
    ELSE LET child_index == Position(s.nodes[c.parent].children, c.child)
         IN IF child_index < 0 THEN Outcome(s, "NotFound")
            ELSE Outcome([s EXCEPT !.nodes[c.parent].children =
                              RemoveAt(@, child_index)], "Ok")

\* AttributeValue::String(s) and AttributeValue::Bool(b)
AttributeString(s) == [String |-> s]
AttributeBool(b) == [Bool |-> b]

\* Change::apply, arms SetString and SetBool
ApplySetAttribute(c, s) ==
    IF ~Contains(s, c.node) THEN Outcome(s, "NotFound")
    ELSE Outcome(NodeStore_set_attribute(s, c.node, c.attribute,
                     IF c.kind = "SetString" THEN AttributeString(c.value)
                     ELSE AttributeBool(c.flag)), "Ok")

\* Change::apply
Apply(c, s) ==
    CASE c.kind = "AddNode" -> ApplyAddNode(c, s)
      [] c.kind = "RemoveNode" -> ApplyRemoveNode(c, s)
      [] c.kind = "AddChild" -> ApplyAddChild(c, s)
      [] c.kind = "RemoveChild" -> ApplyRemoveChild(c, s)
      [] c.kind \in {"SetString", "SetBool"} -> ApplySetAttribute(c, s)
      [] c.kind = "UnknownChange" -> Outcome(s, "Ok")

\* Change::change_type
change_type(c) ==
    CASE c.kind = "AddNode" -> ADD_NODE
      [] c.kind = "RemoveNode" -> REMOVE_NODE
      [] c.kind = "AddChild" -> ADD_CHILD
      [] c.kind = "RemoveChild" -> REMOVE_CHILD
      [] c.kind = "SetString" -> SET_STRING
      [] c.kind = "SetBool" -> SET_BOOL
      [] c.kind = "UnknownChange" -> c.change_type

None == [kind |-> "None"]

\* combine_change that hands back the earlier change instead of the new value
combine_change_keeps_old(c, last_change) ==
    IF /\ c.kind = last_change.kind /\ c.kind \in {"SetString", "SetBool"}
       /\ c.node = last_change.node /\ c.attribute = last_change.attribute
    THEN last_change
    ELSE None

\* combine_change that never coalesces
combine_change_never(c, last_change) == None

\* combine_change that does not compare the attributes
combine_change_any_attribute(c, last_change) ==
    IF /\ c.kind = "SetString" /\ last_change.kind = "SetString"
       /\ c.node = last_change.node
    THEN SetString(c.node, c.attribute, c.value)
    ELSE IF /\ c.kind = "SetBool" /\ last_change.kind = "SetBool"
            /\ c.node = last_change.node
         THEN SetBool(c.node, c.attribute, c.flag)
         ELSE None

\* Change::combine_change: self = c, the replacement or None
combine_change(c, last_change) ==
    IF /\ c.kind = "SetString" /\ last_change.kind = "SetString"
       /\ c.node = last_change.node /\ c.attribute = last_change.attribute
    THEN SetString(c.node, c.attribute, c.value)
    ELSE IF /\ c.kind = "SetBool" /\ last_change.kind = "SetBool"
            /\ c.node = last_change.node /\ c.attribute = last_change.attribute
         THEN SetBool(c.node, c.attribute, c.flag)
         ELSE None

-----------------------------------------------------------------------------
(* Revision (revision.rs) *)

\* a 128-bit id as 16 bytes
Uuid(n) == [i \in 1..16 |-> n]

\* "2024" and "me": what Utc::now().to_rfc3339() and username() stand for
StrDate == <<50, 48, 50, 52>>
StrUser == <<109, 101>>

\* Revision::new() with the id n
Revision_new(n) ==
    [changes |-> <<>>, id |-> Uuid(n), uuid_of_parents |-> <<>>,
     date |-> StrDate, user_name |-> StrUser, message |-> <<>>, tags |-> <<>>]

\* a revision as it comes out of a file
LoadedRevision(changes) == [Revision_new(0) EXCEPT !.changes = changes]

\* Uuid::new_v4(): an id that no revision the document holds has; the random
\* id is modelled by the first number above all ids in use
FreshId(revisions) ==
    LET used == {revisions[i].id[1] : i \in 1..Len(revisions)}
    IN IF used = {} THEN 1
       ELSE (CHOOSE m \in used : \A u \in used : u <= m) + 1

-----------------------------------------------------------------------------
(* Document (document.rs) *)

\* A document value d carries, besides the fields of the struct, what the call
\* that produced it gave its caller: returned (every method returns ()),
\* apply_failed (some Change::apply inside the call returned Err; the loops
\* drop the Result) and panicked (an apply unwound).

\* the result of replaying a list of changes on the store s
RECURSIVE ReplayFrom(_, _, _)
ReplayFrom(changes, s, failed) ==
    IF changes = <<>> THEN [store |-> s, failed |-> failed, panicked |-> FALSE]
    ELSE LET out == Apply(changes[1], s)
         IN IF out.result = "Panic"
            THEN [store |-> out.store, failed |-> failed, panicked |-> TRUE]
            ELSE ReplayFrom(Tail(changes), out.store,
                            failed \/ out.result # "Ok")

\* all changes of a sequence of revisions, in order
RECURSIVE ChangesOf(_)
ChangesOf(revisions) ==
    IF revisions = <<>> THEN <<>>
    ELSE revisions[1].changes \o ChangesOf(Tail(revisions))

\* compute_nodes(repository)
compute_nodes(revisions) == ReplayFrom(ChangesOf(revisions), NodeStore_new, FALSE)

\* Document::rebuild
rebuild(d) ==
    LET r == compute_nodes(d.repository)
        p == IF r.panicked THEN r
             ELSE ReplayFrom(d.pending_changes.changes, r.store, r.failed)
    IN [d EXCEPT !.nodes = p.store,
                 !.apply_failed = @ \/ p.failed,
                 !.panicked = @ \/ p.panicked]

\* Document::new(repository)
Document_new(revisions) ==
    LET r == compute_nodes(revisions)
    IN [repository |-> revisions, nodes |-> r.store,
        pending_changes |-> Revision_new(FreshId(revisions)), undo_changes |-> <<>>,
        returned |-> "Document", apply_failed |-> r.failed, panicked |-> r.panicked]

\* add_and_apply_change that leaves the redo buffer as it is
add_and_apply_change_keeps_redo(d, change) ==
    LET out == Apply(change, d.nodes)
        d1 == [d EXCEPT !.nodes = out.store,
                        !.apply_failed = out.result \notin {"Ok", "Panic"},
                        !.panicked = out.result = "Panic"]
        pend == d.pending_changes.changes
        combined_change == IF pend # <<>> THEN combine_change(change, Last(pend))
                           ELSE None
    IN IF d1.panicked THEN d1
       ELSE IF combined_change # None
            THEN [d1 EXCEPT !.pending_changes.changes = Append(Front(pend), combined_change)]
            ELSE [d1 EXCEPT !.pending_changes.changes = Append(pend, change)]

\* NodeIdGenerator::new(): a counter; the first id it gives is 1
NodeIdGenerator_new == [next |-> 1]

\* NodeIdGenerator::next_id: the id, and the generator afterwards
NodeIdGenerator_next_id(g) == [id |-> g.next, generator |-> [next |-> g.next + 1]]

\* Document::next_id
next_id(g) == NodeIdGenerator_next_id(g)

\* Document::add_and_apply_change
add_and_apply_change(d, change) ==
    LET out == Apply(change, d.nodes)
        d1 == [d EXCEPT !.undo_changes = <<>>, !.nodes = out.store,
                        !.apply_failed = out.result \notin {"Ok", "Panic"},
                        !.panicked = out.result = "Panic"]
        pend == d.pending_changes.changes
        combined_change == IF pend # <<>> THEN combine_change(change, Last(pend))
                           ELSE None
    IN IF d1.panicked THEN d1
       ELSE IF combined_change # None
            THEN [d1 EXCEPT !.pending_changes.changes = Append(Front(pend), combined_change)]
            ELSE [d1 EXCEPT !.pending_changes.changes = Append(pend, change)]

\* commit_changes that appends the pending revision and keeps it pending
commit_changes_keeps_pending(d) ==
    [d EXCEPT !.repository = Append(@, d.pending_changes)]

\* commit_changes that puts the pending revision in front of the repository
commit_changes_prepends(d) ==
    [d EXCEPT !.repository = <<d.pending_changes>> \o @,
              !.pending_changes =
                  Revision_new(FreshId(Append(d.repository, d.pending_changes)))]

\* Document::commit_changes
commit_changes(d) ==
    [d EXCEPT !.repository = Append(@, d.pending_changes),
              !.pending_changes =
                  Revision_new(FreshId(Append(d.repository, d.pending_changes)))]

\* uncommit_changes that does not look at the pending changes
uncommit_changes_unguarded(d) ==
    IF d.repository # <<>>
    THEN rebuild([d EXCEPT !.repository = Front(@),
                           !.pending_changes = Last(d.repository)])
    ELSE d

\* uncommit_changes that leaves the last revision in the repository
uncommit_changes_keeps_revision(d) ==
    IF d.pending_changes.changes = <<>> /\ d.repository # <<>>
    THEN rebuild([d EXCEPT !.pending_changes = Last(d.repository)])
    ELSE d

\* Document::uncommit_changes
uncommit_changes(d) ==
    IF d.pending_changes.changes = <<>> /\ d.repository # <<>>
    THEN rebuild([d EXCEPT !.repository = Front(@),
                           !.pending_changes = Last(d.repository)])
    ELSE d

\* undo that does not uncommit when nothing is pending
undo_without_uncommit(d) ==
    LET pend == d.pending_changes.changes
        d2 == IF d.panicked \/ pend = <<>> THEN d
              ELSE rebuild([d EXCEPT !.pending_changes.changes = Front(pend),
                                     !.undo_changes = Append(@, Last(pend))])
    IN IF d2.panicked THEN d2 ELSE rebuild(d2)

\* undo that does not keep the change it takes off
undo_forgets_change(d) ==
    LET d1 == IF d.pending_changes.changes = <<>> THEN uncommit_changes(d) ELSE d
        pend == d1.pending_changes.changes
        d2 == IF d1.panicked \/ pend = <<>> THEN d1
              ELSE rebuild([d1 EXCEPT !.pending_changes.changes = Front(pend)])
    IN IF d2.panicked THEN d2 ELSE rebuild(d2)

\* Document::undo
undo(d) ==
    LET d1 == IF d.pending_changes.changes = <<>> THEN uncommit_changes(d) ELSE d
        pend == d1.pending_changes.changes
        d2 == IF d1.panicked \/ pend = <<>> THEN d1
              ELSE rebuild([d1 EXCEPT !.pending_changes.changes = Front(pend),
                                      !.undo_changes = Append(@, Last(pend))])
    IN IF d2.panicked THEN d2 ELSE rebuild(d2)

\* redo without the rebuild
redo_without_rebuild(d) ==
    IF d.undo_changes # <<>>
    THEN [d EXCEPT !.undo_changes = Front(@),
                   !.pending_changes.changes = Append(@, Last(d.undo_changes))]
    ELSE d

\* redo that takes the change undone first
redo_oldest_first(d) ==
    IF d.undo_changes # <<>>
    THEN rebuild([d EXCEPT !.undo_changes = Tail(@),
                           !.pending_changes.changes = Append(@, Head(d.undo_changes))])
    ELSE d

\* Document::redo
redo(d) ==
    IF d.undo_changes # <<>>
    THEN rebuild([d EXCEPT !.undo_changes = Front(@),
                           !.pending_changes.changes = Append(@, Last(d.undo_changes))])
    ELSE d

-----------------------------------------------------------------------------
(* Byte streams: the primitives of ReadExt / WriteExt *)

\* the result of a read: a value and the position after it, or an error
ReadOk(v, p) == [ok |-> TRUE, value |-> v, pos |-> p]
ReadErr(e) == [ok |-> FALSE, error |-> e]

\* r, or what F makes of its value and position when r is Ok (the ? operator)
Then(r, F(_, _)) == IF r.ok THEN F(r.value, r.pos) ELSE r

\* the leading bytes of a base-128 quantity, each with the continuation bit
RECURSIVE VlqHigh(_)
VlqHigh(n) == IF n = 0 THEN <<>> ELSE VlqHigh(n \div 128) \o <<128 + (n % 128)>>

\* write_length: unsigned base-128, most significant group first
WriteLength(n) == VlqHigh(n \div 128) \o <<n % 128>>

\* read_length
RECURSIVE ReadVlq(_, _, _)
ReadVlq(buf, pos, acc) ==
    IF pos > Len(buf) THEN ReadErr("UnexpectedEof")
    ELSE IF buf[pos] >= 128 THEN ReadVlq(buf, pos + 1, acc * 128 + (buf[pos] - 128))
         ELSE ReadOk(acc * 128 + buf[pos], pos + 1)

ReadLength(buf, pos) == ReadVlq(buf, pos, 0)

\* write_u8 / read_u8
WriteU8(b) == <<b>>
ReadU8(buf, pos) ==
    IF pos > Len(buf) THEN ReadErr("UnexpectedEof") ELSE ReadOk(buf[pos], pos + 1)

\* read_exact of n bytes
ReadExact(buf, pos, n) ==
    IF pos + n - 1 > Len(buf) THEN ReadErr("UnexpectedEof")
    ELSE ReadOk(SubSeq(buf, pos, pos + n - 1), pos + n)

\* write_id / read_id: a node id as a variable-length quantity
WriteId(id) == WriteLength(id)
ReadId(buf, pos) == ReadLength(buf, pos)

\* write_string / read_string: length, then the UTF-8 bytes
WriteString(s) == WriteLength(Len(s)) \o s
ReadString(buf, pos) ==
    Then(ReadLength(buf, pos), LAMBDA n, p : ReadExact(buf, p, n))

-----------------------------------------------------------------------------
(* Change::write, Change::read and the framing of Revision::write *)

\* Change::write that writes a SetBool value as 0 whatever it is
Change_write_bool_zero(c) ==
    CASE c.kind \in {"AddNode", "RemoveNode"} -> WriteId(c.id)
      [] c.kind = "AddChild" ->
             WriteId(c.parent) \o WriteId(c.child) \o WriteLength(c.insertion_index)
      [] c.kind = "RemoveChild" -> WriteId(c.parent) \o WriteId(c.child)
      [] c.kind = "SetString" ->
             WriteId(c.node) \o WriteString(c.attribute) \o WriteString(c.value)
      [] c.kind = "SetBool" -> WriteId(c.node) \o WriteString(c.attribute) \o WriteU8(0)
      [] c.kind = "UnknownChange" -> c.data

\* Change::write: the payload
Change_write(c) ==
    CASE c.kind \in {"AddNode", "RemoveNode"} -> WriteId(c.id)
      [] c.kind = "AddChild" ->
             WriteId(c.parent) \o WriteId(c.child) \o WriteLength(c.insertion_index)
      [] c.kind = "RemoveChild" -> WriteId(c.parent) \o WriteId(c.child)
      [] c.kind = "SetString" ->
             WriteId(c.node) \o WriteString(c.attribute) \o WriteString(c.value)
      [] c.kind = "SetBool" ->
             WriteId(c.node) \o WriteString(c.attribute)
                 \o WriteU8(IF c.flag THEN 1 ELSE 0)
      [] c.kind = "UnknownChange" -> c.data

\* Revision::write, the body of its loop: type tag, payload length, payload
WriteFramedChange(c) ==
    LET temp == Change_write(c)
    IN WriteLength(change_type(c)) \o WriteLength(Len(temp)) \o temp

\* the tags Change::read interprets
InterpretedTags == {ADD_NODE, REMOVE_NODE, SET_STRING, SET_BOOL, ADD_CHILD, REMOVE_CHILD}

\* Change::read, the arms of the interpreted kinds (change_size is not used)
ReadInterpreted(tag, buf, pos) ==
    CASE tag = ADD_NODE ->
             Then(ReadId(buf, pos), LAMBDA node, p : ReadOk(AddNode(node), p))
      [] tag = REMOVE_NODE ->
             Then(ReadId(buf, pos), LAMBDA node, p : ReadOk(RemoveNode(node), p))
      [] tag = SET_STRING ->
             Then(ReadId(buf, pos), LAMBDA node, p1 :
             Then(ReadString(buf, p1), LAMBDA attribute, p2 :
             Then(ReadString(buf, p2), LAMBDA value, p3 :
                 ReadOk(SetString(node, attribute, value), p3))))
      [] tag = SET_BOOL ->
             Then(ReadId(buf, pos), LAMBDA node, p1 :
             Then(ReadString(buf, p1), LAMBDA attribute, p2 :
             Then(ReadU8(buf, p2), LAMBDA value, p3 :
                 ReadOk(SetBool(node, attribute, value # 0), p3))))
      [] tag = ADD_CHILD ->
             Then(ReadId(buf, pos), LAMBDA parent, p1 :
             Then(ReadId(buf, p1), LAMBDA child, p2 :
             Then(ReadLength(buf, p2), LAMBDA insertion_index, p3 :
                 ReadOk(AddChild(parent, child, insertion_index), p3))))
      [] tag = REMOVE_CHILD ->
             Then(ReadId(buf, pos), LAMBDA parent, p1 :
             Then(ReadId(buf, p1), LAMBDA child, p2 :
                 ReadOk(RemoveChild(parent, child), p2)))

\* the catch-all arm reading one byte too few
ReadUnknown_short(change_type_, change_size, buf, pos) ==
    Then(ReadExact(buf, pos, IF change_size > 0 THEN change_size - 1 ELSE 0),
         LAMBDA data, p : ReadOk(UnknownChange(change_type_, data), p))

\* Change::read, the catch-all arm: change_size bytes kept as they are
ReadUnknown(change_type_, change_size, buf, pos) ==
    Then(ReadExact(buf, pos, change_size), LAMBDA data, p :
        ReadOk(UnknownChange(change_type_, data), p))

\* Change::read from position pos of buf
Change_read(buf, pos) ==
    Then(ReadLength(buf, pos), LAMBDA change_type_, p1 :
    Then(ReadLength(buf, p1), LAMBDA change_size, p2 :
        IF change_type_ \in InterpretedTags
        THEN ReadInterpreted(change_type_, buf, p2)
        ELSE ReadUnknown(change_type_, change_size, buf, p2)))

-----------------------------------------------------------------------------
(* Revision::write and Revision::read *)

CHANGE_LIST_ID == 1130917479

\* write_u32 / read_u32: four bytes, most significant first. A u32 that was
\* read is held as those four bytes (its base-256 digits): the numbers from
\* 2^31 on are beyond the integers TLC computes with
WriteU32(n) ==
    <<(n \div 16777216) % 256, (n \div 65536) % 256, (n \div 256) % 256, n % 256>>
ReadU32(buf, pos) == ReadExact(buf, pos, 4)

\* write_uuid / read_uuid: the sixteen bytes
WriteUuid(u) == u
ReadUuid(buf, pos) == ReadExact(buf, pos, 16)

\* a count, then the items: write_uuid_array, write_string_array and the
\* change list of a revision are all of this shape
RECURSIVE Flatten(_)
Flatten(parts) ==
    IF parts = <<>> THEN <<>> ELSE parts[1] \o Flatten(Tail(parts))

WriteItems(items, W(_)) == Flatten([i \in 1..Len(items) |-> W(items[i])])

ReadItem(kind, buf, pos) ==
    CASE kind = "uuid" -> ReadUuid(buf, pos)
      [] kind = "string" -> ReadString(buf, pos)
      [] kind = "change" -> Change_read(buf, pos)

RECURSIVE ReadItems(_, _, _, _, _)
ReadItems(buf, pos, count, acc, kind) ==
    IF count = 0 THEN ReadOk(acc, pos)
    ELSE LET r == ReadItem(kind, buf, pos)
         IN IF r.ok THEN ReadItems(buf, r.pos, count - 1, Append(acc, r.value), kind)
            ELSE r

WriteUuidArray(us) == WriteLength(Len(us)) \o WriteItems(us, WriteUuid)
ReadUuidArray(buf, pos) ==
    Then(ReadLength(buf, pos), LAMBDA n, p : ReadItems(buf, p, n, <<>>, "uuid"))

WriteStringArray(ss) == WriteLength(Len(ss)) \o WriteItems(ss, WriteString)
ReadStringArray(buf, pos) ==
    Then(ReadLength(buf, pos), LAMBDA n, p : ReadItems(buf, p, n, <<>>, "string"))

\* Revision::write
Revision_write(rev) ==
    WriteU32(CHANGE_LIST_ID) \o WriteUuid(rev.id) \o WriteUuidArray(rev.uuid_of_parents)
    \o WriteString(rev.date) \o WriteString(rev.user_name) \o WriteString(rev.message)
    \o WriteStringArray(rev.tags)
    \o WriteLength(Len(rev.changes)) \o WriteItems(rev.changes, WriteFramedChange)

\* Revision::read after the magic tag: the fields, then the changes
Revision_read_fields(buf, p0) ==
    Then(ReadUuid(buf, p0), LAMBDA id, p1 :
    Then(ReadUuidArray(buf, p1), LAMBDA uuid_of_parents, p2 :
    Then(ReadString(buf, p2), LAMBDA date, p3 :
    Then(ReadString(buf, p3), LAMBDA user_name, p4 :
    Then(ReadString(buf, p4), LAMBDA message, p5 :
    Then(ReadStringArray(buf, p5), LAMBDA tags, p6 :
    Then(ReadLength(buf, p6), LAMBDA count, p7 :
    Then(ReadItems(buf, p7, count, <<>>, "change"), LAMBDA changes, p8 :
        ReadOk([changes |-> changes, id |-> id, uuid_of_parents |-> uuid_of_parents,
                date |-> date, user_name |-> user_name, message |-> message,
                tags |-> tags], p8)))))))))

\* Revision::read that takes any four bytes for the magic tag
Revision_read_any_magic(buf, pos) ==
    Then(ReadU32(buf, pos), LAMBDA magic, p0 : Revision_read_fields(buf, p0))

\* Revision::read
Revision_read(buf, pos) ==
    Then(ReadU32(buf, pos), LAMBDA magic, p0 :
        IF magic # WriteU32(CHANGE_LIST_ID) THEN ReadErr("InvalidData")
        ELSE Revision_read_fields(buf, p0))

\* a slice of history as bytes: the revisions one after another
WriteRevisions(revisions) == WriteItems(revisions, Revision_write)

\* Journal::append: revisions read until the bytes end
RECURSIVE ReadRevisions(_, _, _)
ReadRevisions(buf, pos, acc) ==
    IF pos > Len(buf) THEN ReadOk(acc, pos)
    ELSE LET r == Revision_read(buf, pos)
         IN IF r.ok THEN ReadRevisions(buf, r.pos, Append(acc, r.value)) ELSE r

\* Repository::write: the number of revisions, then the revisions
Repository_write(revisions) == WriteLength(Len(revisions)) \o WriteRevisions(revisions)

\* Repository::read: as many revisions as the length says
RECURSIVE ReadCountedRevisions(_, _, _, _)
ReadCountedRevisions(buf, pos, count, acc) ==
    IF count = 0 THEN ReadOk(acc, pos)
    ELSE LET r == Revision_read(buf, pos)
         IN IF r.ok THEN ReadCountedRevisions(buf, r.pos, count - 1, Append(acc, r.value))
            ELSE r

Repository_read(buf, pos) ==
    Then(ReadLength(buf, pos), LAMBDA count, p : ReadCountedRevisions(buf, p, count, <<>>))

\* Document::write that also writes the pending revision
Document_write_with_pending(d) ==
    Repository_write(Append(d.repository, d.pending_changes))

\* Document::write
Document_write(d) == Repository_write(d.repository)

\* Document::read
Document_read(buf) ==
    Then(Repository_read(buf, 1), LAMBDA revisions, p : ReadOk(Document_new(revisions), p))

-----------------------------------------------------------------------------
(* NetworkRequest and NetworkResponse (network_protocol.rs) *)

DISCONNECT == 0
LIST_FILES == 1
GET_FILE_DATA == 2
CREATE_FILE == 3
APPEND_FILE == 4

Disconnect == [type |-> "Disconnect"]
ListFiles(path) == [type |-> "ListFiles", path |-> path]
CreateFile(path) == [type |-> "CreateFile", path |-> path]
GetFileData(from, path) == [type |-> "GetFileData", from |-> from, path |-> path]
AppendFile(from, to, path, data) ==
    [type |-> "AppendFile", from |-> from, to |-> to, path |-> path, data |-> data]

ListFilesResponse(files) == [type |-> "ListFiles", files |-> files]
CreateFileResponse(result) == [type |-> "CreateFile", result |-> result]
GetFileDataResponse(from, to, data) ==
    [type |-> "GetFileData", from |-> from, to |-> to, data |-> data]
AppendFileResponse(result) == [type |-> "AppendFile", result |-> result]

\* Result<(), String>
ResultOk == [ok |-> TRUE]
ResultErr(message) == [ok |-> FALSE, message |-> message]

\* write_bytes / read_bytes: length, then the bytes
WriteBytes(b) == WriteLength(Len(b)) \o b
ReadBytes(buf, pos) == ReadString(buf, pos)

\* message_id that gives AppendFile the id of CreateFile
message_id_append_as_create(m) ==
    CASE m.type = "Disconnect" -> DISCONNECT
      [] m.type = "ListFiles" -> LIST_FILES
      [] m.type = "GetFileData" -> GET_FILE_DATA
      [] m.type \in {"CreateFile", "AppendFile"} -> CREATE_FILE

\* message_id of a request or a response
message_id(m) ==
    CASE m.type = "Disconnect" -> DISCONNECT
      [] m.type = "ListFiles" -> LIST_FILES
      [] m.type = "GetFileData" -> GET_FILE_DATA
      [] m.type = "CreateFile" -> CREATE_FILE
      [] m.type = "AppendFile" -> APPEND_FILE

\* NetworkRequest::write
NetworkRequest_write(m) ==
    WriteU8(message_id(m)) \o
    CASE m.type = "Disconnect" -> <<>>
      [] m.type \in {"ListFiles", "CreateFile"} -> WriteString(m.path)
      [] m.type = "GetFileData" -> WriteLength(m.from) \o WriteString(m.path)
      [] m.type = "AppendFile" ->
             WriteLength(m.from) \o WriteLength(m.to) \o WriteString(m.path)
                 \o WriteBytes(m.data)

\* NetworkRequest::read that takes an unknown message id for Disconnect
NetworkRequest_read_unknown_disconnects(buf, pos) ==
    Then(ReadU8(buf, pos), LAMBDA id, p0 :
        CASE id = DISCONNECT -> ReadOk(Disconnect, p0)
          [] id = LIST_FILES ->
                 Then(ReadString(buf, p0), LAMBDA path, p : ReadOk(ListFiles(path), p))
          [] id = GET_FILE_DATA ->
                 Then(ReadLength(buf, p0), LAMBDA from_revision, p1 :
                 Then(ReadString(buf, p1), LAMBDA path, p :
                     ReadOk(GetFileData(from_revision, path), p)))
          [] id = CREATE_FILE ->
                 Then(ReadString(buf, p0), LAMBDA path, p : ReadOk(CreateFile(path), p))
          [] id = APPEND_FILE ->
                 Then(ReadLength(buf, p0), LAMBDA from_revision, p1 :
                 Then(ReadLength(buf, p1), LAMBDA to_revision, p2 :
                 Then(ReadString(buf, p2), LAMBDA path, p3 :
                 Then(ReadBytes(buf, p3), LAMBDA data, p :
                     ReadOk(AppendFile(from_revision, to_revision, path, data), p)))))
          [] OTHER -> ReadOk(Disconnect, p0))

\* NetworkRequest::read
NetworkRequest_read(buf, pos) ==
    Then(ReadU8(buf, pos), LAMBDA id, p0 :
        CASE id = DISCONNECT -> ReadOk(Disconnect, p0)
          [] id = LIST_FILES ->
                 Then(ReadString(buf, p0), LAMBDA path, p : ReadOk(ListFiles(path), p))
          [] id = GET_FILE_DATA ->
                 Then(ReadLength(buf, p0), LAMBDA from_revision, p1 :
                 Then(ReadString(buf, p1), LAMBDA path, p :
                     ReadOk(GetFileData(from_revision, path), p)))
          [] id = CREATE_FILE ->
                 Then(ReadString(buf, p0), LAMBDA path, p : ReadOk(CreateFile(path), p))
          [] id = APPEND_FILE ->
                 Then(ReadLength(buf, p0), LAMBDA from_revision, p1 :
                 Then(ReadLength(buf, p1), LAMBDA to_revision, p2 :
                 Then(ReadString(buf, p2), LAMBDA path, p3 :
                 Then(ReadBytes(buf, p3), LAMBDA data, p :
                     ReadOk(AppendFile(from_revision, to_revision, path, data), p)))))
          [] OTHER -> ReadErr("InvalidData"))

\* the Result<(), String> of a CreateFile or AppendFile response
WriteResult(result) ==
    IF result.ok THEN WriteU8(0) ELSE WriteU8(1) \o WriteString(result.message)
ReadResult(buf, pos) ==
    Then(ReadU8(buf, pos), LAMBDA result, p :
        IF result = 0 THEN ReadOk(ResultOk, p)
        ELSE Then(ReadString(buf, p), LAMBDA e, q : ReadOk(ResultErr(e), q)))

\* NetworkResponse::write
NetworkResponse_write(m) ==
    WriteU8(message_id(m)) \o
    CASE m.type = "ListFiles" -> WriteStringArray(m.files)
      [] m.type = "GetFileData" ->
             WriteLength(m.from) \o WriteLength(m.to) \o WriteBytes(m.data)
      [] m.type \in {"CreateFile", "AppendFile"} -> WriteResult(m.result)

\* NetworkResponse::read
NetworkResponse_read(buf, pos) ==
    Then(ReadU8(buf, pos), LAMBDA id, p0 :
        CASE id = LIST_FILES ->
                 Then(ReadStringArray(buf, p0), LAMBDA files, p :
                     ReadOk(ListFilesResponse(files), p))
          [] id = GET_FILE_DATA ->
                 Then(ReadLength(buf, p0), LAMBDA from_revision, p1 :
                 Then(ReadLength(buf, p1), LAMBDA to_revision, p2 :
                 Then(ReadBytes(buf, p2), LAMBDA data, p :
                     ReadOk(GetFileDataResponse(from_revision, to_revision, data), p))))
          [] id = CREATE_FILE ->
                 Then(ReadResult(buf, p0), LAMBDA result, p :
                     ReadOk(CreateFileResponse(result), p))
          [] id = APPEND_FILE ->
                 Then(ReadResult(buf, p0), LAMBDA result, p :
                     ReadOk(AppendFileResponse(result), p))
          [] OTHER -> ReadErr("InvalidData"))

\* Journal::new(): no revisions
Journal_new == <<>>

\* as_journal that takes every response for a slice of history
as_journal_of_any(response) ==
    IF response.type = "GetFileData"
    THEN LET r == ReadRevisions(response.data, 1, Journal_new)
         IN IF r.ok THEN [ok |-> TRUE, value |-> r.value] ELSE r
    ELSE [ok |-> TRUE, value |-> Journal_new]

\* NetworkResponse::as_journal: the journal, or the error
as_journal(response) ==
    IF response.type = "GetFileData"
    THEN LET r == ReadRevisions(response.data, 1, Journal_new)
         IN IF r.ok THEN [ok |-> TRUE, value |-> r.value] ELSE r
    ELSE ReadErr("InvalidData")

-----------------------------------------------------------------------------
(* The store of the server, and one turn of handle_connection (server.rs) *)

PathRoot == <<>>
PathF == <<102>>
PathG == <<103>>
PathMissing == <<109>>
StrNoSuchDirectory == <<100>>
StrFileExists == <<101>>
StrNoSuchFile == <<110>>

StoreOk(fs, value) == [ok |-> TRUE, files |-> fs, value |-> value]
StoreErr(fs, message) == [ok |-> FALSE, files |-> fs, message |-> message]

\* Store::list_files: the names in the store's directory
Store_list_files(fs, path) ==
    IF path = PathRoot
    THEN StoreOk(fs, SelectSeq(<<PathF, PathG>>, LAMBDA name : name \in DOMAIN fs))
    ELSE StoreErr(fs, StrNoSuchDirectory)

\* Store::create_file: a new file without revisions
Store_create_file(fs, path) ==
    IF path \in DOMAIN fs THEN StoreErr(fs, StrFileExists)
    ELSE StoreOk([q \in DOMAIN fs \cup {path} |-> IF q = path THEN <<>> ELSE fs[q]], <<>>)

\* Store::get_file_data: the revisions from..n of the file, serialized
Store_get_file_data(fs, from, path) ==
    IF path \notin DOMAIN fs \/ from > Len(fs[path]) THEN StoreErr(fs, StrNoSuchFile)
    ELSE LET n == Len(fs[path])
         IN StoreOk(fs, <<from, n, WriteRevisions(SubSeq(fs[path], from + 1, n))>>)

NoResponse == [type |-> "NoResponse"]
NoRequest == [type |-> "NoRequest"]

\* what one arm of the match does: the store afterwards, the response written
\* to the stream (if any), and whether the loop goes on or the call returns
Arm(fs, response, outcome) == [files |-> fs, response |-> response, outcome |-> outcome]

\* NetworkRequest::ListFiles: `?` on the store's result
ServeListFiles(fs, path) ==
    LET r == Store_list_files(fs, path)
    IN IF r.ok THEN Arm(r.files, ListFilesResponse(r.value), "continue")
       ELSE Arm(r.files, NoResponse, "Err")

\* NetworkRequest::CreateFile: the store's error becomes the result
ServeCreateFile(fs, path) ==
    LET r == Store_create_file(fs, path)
    IN Arm(r.files,
           CreateFileResponse(IF r.ok THEN ResultOk ELSE ResultErr(r.message)),
           "continue")

ServeGetFileData_from_start(fs, from_revision, path) ==
    LET r == Store_get_file_data(fs, from_revision, path)
    IN IF r.ok
       THEN Arm(r.files, GetFileDataResponse(0, r.value[2], r.value[3]), "continue")
       ELSE Arm(r.files, NoResponse, "continue")

\* NetworkRequest::GetFileData: a response only if the store returned Ok
ServeGetFileData(fs, from_revision, path) ==
    LET r == Store_get_file_data(fs, from_revision, path)
    IN IF r.ok
       THEN Arm(r.files, GetFileDataResponse(r.value[1], r.value[2], r.value[3]),
                "continue")
       ELSE Arm(r.files, NoResponse, "continue")

\* the match of handle_connection; it has no arm for AppendFile
ServeRequest(fs, request) ==
    CASE request.type = "Disconnect" -> Arm(fs, NoResponse, "Ok")
      [] request.type = "ListFiles" -> ServeListFiles(fs, request.path)
      [] request.type = "CreateFile" -> ServeCreateFile(fs, request.path)
      [] request.type = "GetFileData" ->
             ServeGetFileData(fs, request.from, request.path)
      [] OTHER -> Arm(fs, NoResponse, "continue")

\* one turn of the loop of handle_connection on the bytes `input`
handle_connection(fs, input) ==
    LET request == NetworkRequest_read(input, 1)
    IN IF request.ok
       THEN LET arm == ServeRequest(fs, request.value)
            IN [files |-> arm.files,
                request |-> request.value,
                response |-> arm.response,
                written |-> IF arm.response = NoResponse THEN <<>>
                            ELSE NetworkResponse_write(arm.response),
                rest |-> SubSeq(input, request.pos, Len(input)),
                outcome |-> arm.outcome]
       ELSE [files |-> fs, request |-> NoRequest, response |-> NoResponse,
             written |-> <<>>, rest |-> <<>>, outcome |-> "Err"]

-----------------------------------------------------------------------------
(* The document state machine *)

\* the changes a caller hands to add_and_apply_change
DocChanges ==
    {AddNode(1), RemoveNode(1),
     AddChild(ROOT_NODE, 1, 0), AddChild(ROOT_NODE, 1, 1),
     SetString(1, StrA, StrX), SetString(1, StrA, StrY)}

\* the repositories a document is constructed from: none (Document::default),
\* a well-formed one, and one whose log fails to replay
InitRepositories ==
    {<<>>, <<LoadedRevision(<<AddNode(1)>>)>>, <<LoadedRevision(<<RemoveNode(1)>>)>>}

\* the Document as one value, before a call
Doc ==
    [repository |-> repository, nodes |-> nodes, pending_changes |-> pending_changes,
     undo_changes |-> undo_changes,
     returned |-> "()", apply_failed |-> FALSE, panicked |-> panicked]

\* number of changes in repository and pending
HistoryLen(d) == Len(ChangesOf(d.repository)) + Len(d.pending_changes.changes)

\* the variables hold the document d
SetDoc(d) ==
    /\ repository' = d.repository
    /\ nodes' = d.nodes
    /\ pending_changes' = d.pending_changes
    /\ undo_changes' = d.undo_changes
    /\ panicked' = d.panicked
    /\ UNCHANGED <<node_id_generator, issued>>

DocInit ==
    \E r \in InitRepositories :
        LET d == Document_new(r)
        IN /\ repository = d.repository
           /\ nodes = d.nodes
           /\ pending_changes = d.pending_changes
           /\ undo_changes = d.undo_changes
           /\ panicked = d.panicked
           /\ node_id_generator = NodeIdGenerator_new
           /\ issued = <<>>

AddAndApplyChange(c) ==
    /\ ~panicked
    /\ HistoryLen(Doc) < MaxChanges
    /\ SetDoc(add_and_apply_change(Doc, c))

CommitChanges ==
    /\ ~panicked
    /\ Len(repository) < MaxRevisions
    /\ SetDoc(commit_changes(Doc))

UncommitChanges ==
    /\ ~panicked
    /\ SetDoc(uncommit_changes(Doc))

Undo ==
    /\ ~panicked
    /\ SetDoc(undo(Doc))

Redo ==
    /\ ~panicked
    /\ SetDoc(redo(Doc))

\* Document::next_id: the id goes to the caller
NextId ==
    /\ ~panicked
    /\ Len(issued) < MaxIds
    /\ node_id_generator' = next_id(node_id_generator).generator
    /\ issued' = Append(issued, next_id(node_id_generator).id)
    /\ UNCHANGED <<repository, nodes, pending_changes, undo_changes, panicked>>

\* what a caller does with an id it got from next_id
IssuedChanges ==
    UNION {{AddNode(issued[i]), AddChild(ROOT_NODE, issued[i], 0), RemoveNode(issued[i]),
            SetString(issued[i], StrA, StrX)} : i \in 1..Len(issued)}

DocNextId == NextId /\ UNCHANGED <<applyVars, scriptVars, codecVars, serverVars, acceptVars, bytesVars>>
DocAddIssued == (\E c \in IssuedChanges : AddAndApplyChange(c)) /\ UNCHANGED <<applyVars, scriptVars, codecVars, serverVars, acceptVars, bytesVars>>

\* the calls of a caller that owns nothing but the document
DocAdd == (\E c \in DocChanges : AddAndApplyChange(c)) /\ UNCHANGED <<applyVars, scriptVars, codecVars, serverVars, acceptVars, bytesVars>>
DocCommit == CommitChanges /\ UNCHANGED <<applyVars, scriptVars, codecVars, serverVars, acceptVars, bytesVars>>
DocUncommit == UncommitChanges /\ UNCHANGED <<applyVars, scriptVars, codecVars, serverVars, acceptVars, bytesVars>>
DocUndo == Undo /\ UNCHANGED <<applyVars, scriptVars, codecVars, serverVars, acceptVars, bytesVars>>
DocRedo == Redo /\ UNCHANGED <<applyVars, scriptVars, codecVars, serverVars, acceptVars, bytesVars>>

\* the changes a caller sets attributes with: two kinds of value, two nodes,
\* two attributes, and a change of another kind
CoalesceChanges ==
    {SetString(1, StrA, StrX), SetString(1, StrA, StrY), SetString(1, StrB, StrX),
     SetString(2, StrA, StrX), SetBool(1, StrA, TRUE), SetBool(1, StrA, FALSE),
     SetBool(1, StrB, TRUE), SetBool(2, StrA, TRUE), AddNode(1)}

CoalesceAdds == (\E c \in CoalesceChanges : AddAndApplyChange(c)) /\ UNCHANGED <<applyVars, scriptVars, codecVars, serverVars, acceptVars, bytesVars>>

DocIdle ==
    /\ repository = <<>>
    /\ nodes = NodeStore_new
    /\ pending_changes = Revision_new(1)
    /\ undo_changes = <<>>
    /\ panicked = FALSE
    /\ node_id_generator = NodeIdGenerator_new
    /\ issued = <<>>

-----------------------------------------------------------------------------
(* Change::apply on a bare node store *)

\* every change over the ids 1, 2 and the root, the attributes a and b
AllChanges ==
    {AddNode(i) : i \in NodeIds} \cup {RemoveNode(i) : i \in NodeIds}
    \cup {AddChild(p, c, i) : p \in NodeIds \cup {ROOT_NODE}, c \in NodeIds, i \in {0, 1}}
    \cup {RemoveChild(p, c) : p \in NodeIds \cup {ROOT_NODE}, c \in NodeIds}
    \cup {SetString(1, a, v) : a \in {StrA, StrB}, v \in {StrX, StrY}}
    \cup {SetBool(1, StrA, b) : b \in BOOLEAN}
    \cup {UnknownChange(66, <<7>>)}

ApplyInit ==
    /\ store = NodeStore_new
    /\ steps = 0

ApplyIdle == ApplyInit

\* one call of Change::apply; a panic ends the run
ApplyChange(c) ==
    /\ steps < MaxApplied
    /\ Apply(c, store).result # "Panic"
    /\ store' = Apply(c, store).store
    /\ steps' = steps + 1

\* the call unwinds: the store is left as the panic found it
ApplyPanics(c) ==
    /\ steps < MaxApplied
    /\ Apply(c, store).result = "Panic"
    /\ store' = Apply(c, store).store
    /\ steps' = MaxApplied

ApplyReturns == (\E c \in AllChanges : ApplyChange(c)) /\ UNCHANGED <<docVars, scriptVars, codecVars, serverVars, acceptVars, bytesVars>>
ApplyUnwinds == (\E c \in AllChanges : ApplyPanics(c)) /\ UNCHANGED <<docVars, scriptVars, codecVars, serverVars, acceptVars, bytesVars>>

-----------------------------------------------------------------------------
(* A caller that edits, then undoes until no history remains, then redoes *)

ScriptIdle ==
    /\ phase = "edit"
    /\ saved = NodeStore_new
    /\ calls = 0
    /\ redone = 0

\* add_and_apply_change or commit_changes while editing
ScriptEdit ==
    /\ phase = "edit"
    /\ \/ \E c \in DocChanges : AddAndApplyChange(c)
       \/ CommitChanges
    /\ UNCHANGED <<scriptVars, applyVars, codecVars, serverVars, acceptVars, bytesVars>>

\* the first undo is about to be called: the node store is noted
ScriptStart ==
    /\ phase = "edit" /\ ~panicked
    /\ phase' = "undo"
    /\ saved' = nodes
    /\ UNCHANGED <<calls, redone>>
    /\ UNCHANGED <<docVars, applyVars, codecVars, serverVars, acceptVars, bytesVars>>

\* undo, while the repository or the pending revision holds anything
ScriptUndo ==
    /\ phase = "undo"
    /\ repository # <<>> \/ pending_changes.changes # <<>>
    /\ Undo
    /\ calls' = calls + 1
    /\ UNCHANGED <<phase, saved, redone>>
    /\ UNCHANGED <<applyVars, codecVars, serverVars, acceptVars, bytesVars>>

\* no history remains: the redos begin
ScriptTurn ==
    /\ phase = "undo"
    /\ repository = <<>> /\ pending_changes.changes = <<>>
    /\ phase' = "redo"
    /\ UNCHANGED <<saved, calls, redone>>
    /\ UNCHANGED <<docVars, applyVars, codecVars, serverVars, acceptVars, bytesVars>>

\* redo, as many times as undo was called
ScriptRedo ==
    /\ phase = "redo"
    /\ redone < calls
    /\ Redo
    /\ redone' = redone + 1
    /\ UNCHANGED <<phase, saved, calls>>
    /\ UNCHANGED <<applyVars, codecVars, serverVars, acceptVars, bytesVars>>

-----------------------------------------------------------------------------
(* Changes written to a byte stream and read back *)

\* the changes written: every variant, values whose lengths take one and two
\* bytes, unknown tags of one and two bytes, and UnknownChange values that
\* carry the tag of an interpreted kind
CodecChanges ==
    {AddNode(1), RemoveNode(300),
     AddChild(ROOT_NODE, 1, 0), AddChild(2, 1, 200), RemoveChild(ROOT_NODE, 1),
     SetString(1, StrA, <<120, 121>>), SetString(2, <<>>, <<>>),
     SetBool(1, StrA, TRUE), SetBool(1, StrB, FALSE),
     UnknownChange(66, <<7>>), UnknownChange(66, <<>>), UnknownChange(200, <<1, 255>>),
     UnknownChange(ADD_NODE, <<1, 66>>), UnknownChange(SET_STRING, <<>>)}

CodecInit ==
    /\ wire = <<>>
    /\ sent = <<>>
    /\ received = <<>>

CodecIdle == CodecInit

\* where the reader stands, and whether a read has failed (Revision::read
\* returns at the first error)
ReaderPos == IF received = <<>> THEN 1 ELSE Last(received).end
ReaderFailed == received # <<>> /\ ~Last(received).result.ok

\* Revision::write, one turn of its loop; the bytes are read once written
CodecWrite(c) ==
    /\ Len(sent) < MaxFrames
    /\ received = <<>>
    /\ wire' = wire \o WriteFramedChange(c)
    /\ sent' = Append(sent, c)
    /\ UNCHANGED received

\* Revision::read, one turn of its loop: Change::read at the reader's position
CodecRead ==
    /\ Len(received) < Len(sent)
    /\ ~ReaderFailed
    /\ LET r == Change_read(wire, ReaderPos)
       IN received' = Append(received,
              [result |-> r, start |-> ReaderPos,
               end |-> IF r.ok THEN r.pos ELSE ReaderPos])
    /\ UNCHANGED <<wire, sent>>

CodecWrites == (\E c \in CodecChanges : CodecWrite(c)) /\ UNCHANGED <<docVars, applyVars, scriptVars, serverVars, acceptVars, bytesVars>>
CodecReads == CodecRead /\ UNCHANGED <<docVars, applyVars, scriptVars, serverVars, acceptVars, bytesVars>>

-----------------------------------------------------------------------------
(* One client connected to the server *)

\* the i-th revision of a file on the server
FileRevision(i) ==
    [Revision_new(i) EXCEPT !.changes = <<AddNode(i), UnknownChange(66, <<i>>)>>,
                            !.uuid_of_parents = IF i = 1 THEN <<>> ELSE <<Uuid(i - 1)>>]

FileRevisions(n) == [i \in 1..n |-> FileRevision(i)]

\* the requests the client makes
Requests ==
    {ListFiles(PathRoot), ListFiles(PathMissing), CreateFile(PathF), CreateFile(PathG)}
    \cup {GetFileData(k, p) : k \in 0..MaxFileRevisions, p \in {PathF, PathG}}
    \cup {AppendFile(k, k + 1, PathF, WriteRevisions(<<FileRevision(k + 1)>>)) :
              k \in 0..MaxFileRevisions}

NoAnswer == [type |-> "NoAnswer"]
Failed(e) == [type |-> "Err", error |-> e]

ServerInit ==
    /\ \E n \in 0..MaxFileRevisions :
           store_files = [p \in {PathF} |-> FileRevisions(n)]
    /\ c2s = <<>>
    /\ s2c = <<>>
    /\ conn = "open"
    /\ client = "idle"
    /\ asked = NoRequest
    /\ answer = NoAnswer
    /\ served = [request |-> NoRequest, files |-> store_files, response |-> NoResponse]

ServerIdle ==
    /\ store_files = [p \in {PathF} |-> <<>>]
    /\ c2s = <<>>
    /\ s2c = <<>>
    /\ conn = "open"
    /\ client = "idle"
    /\ asked = NoRequest
    /\ answer = NoAnswer
    /\ served = [request |-> NoRequest, files |-> store_files, response |-> NoResponse]

\* what the server has yet to read after the client wrote `bytes`: nothing
\* is read from a stream once handle_connection has returned
Written(bytes) == IF conn = "open" THEN c2s \o bytes ELSE <<>>

\* Client::request, first half: the request is written to the stream
ClientRequest(request) ==
    /\ client = "idle"
    /\ c2s' = Written(NetworkRequest_write(request))
    /\ client' = "waiting"
    /\ asked' = request
    /\ answer' = NoAnswer
    /\ UNCHANGED <<store_files, s2c, conn, served>>

\* Client::request, second half: NetworkResponse::read returns once bytes have
\* arrived or the server has let go of the stream
ClientReceive ==
    /\ client = "waiting"
    /\ s2c # <<>> \/ conn # "open"
    /\ LET r == NetworkResponse_read(s2c, 1)
       IN /\ answer' = IF r.ok THEN r.value ELSE Failed(r.error)
          /\ s2c' = IF r.ok THEN SubSeq(s2c, r.pos, Len(s2c)) ELSE <<>>
    /\ client' = "idle"
    /\ UNCHANGED <<store_files, c2s, conn, asked, served>>

\* Drop for Client: Disconnect is written and the result unwrapped; a write to
\* a stream the server has closed may succeed or fail
ClientDrop ==
    /\ client = "idle"
    /\ \/ /\ c2s' = Written(NetworkRequest_write(Disconnect))
          /\ client' = "dropped"
       \/ /\ conn # "open"
          /\ c2s' = c2s
          /\ client' = "panicked"
    /\ UNCHANGED <<store_files, s2c, conn, asked, answer, served>>

\* one turn of the loop of handle_connection
ServerTurn ==
    /\ conn = "open"
    /\ c2s # <<>>
    /\ LET turn == handle_connection(store_files, c2s)
       IN /\ store_files' = turn.files
          /\ c2s' = turn.rest
          /\ s2c' = s2c \o turn.written
          /\ conn' = IF turn.outcome = "continue" THEN "open" ELSE turn.outcome
          /\ served' = [request |-> turn.request, files |-> store_files,
                         response |-> turn.response]
    /\ UNCHANGED <<client, asked, answer>>

ClientRequests == (\E request \in Requests : ClientRequest(request)) /\ UNCHANGED <<docVars, applyVars, scriptVars, codecVars, acceptVars, bytesVars>>
ClientReceives == ClientReceive /\ UNCHANGED <<docVars, applyVars, scriptVars, codecVars, acceptVars, bytesVars>>
ClientDrops == ClientDrop /\ UNCHANGED <<docVars, applyVars, scriptVars, codecVars, acceptVars, bytesVars>>
ServerTurns == ServerTurn /\ UNCHANGED <<docVars, applyVars, scriptVars, codecVars, acceptVars, bytesVars>>

-----------------------------------------------------------------------------
(* The listener's queue of connections *)

\* The server loop takes one connection at a time from listener.incoming()
\* and calls handle_connection on it before it takes the next. The variables
\* c2s, s2c, conn, client, asked and answer describe connection number
\* `current`, the one the server has taken; `backlog` holds the connections
\* made since, numbered current + 1, current + 2, ... Each is a client with
\* the bytes it has written. The client of a connection the server has
\* returned from is followed no further once the next one is taken.

AcceptIdle ==
    /\ backlog = <<>>
    /\ current = 1

\* the requests made in this part of the model; the store answers both
QueuedRequestsSet == {ListFiles(PathRoot), GetFileData(0, PathF)}

\* Client::new by a further client: the listener queues the connection
SecondConnect ==
    /\ current + Len(backlog) < MaxConnections
    /\ backlog' = Append(backlog, [client |-> "idle", c2s |-> <<>>, asked |-> NoRequest])
    /\ UNCHANGED <<current, serverVars>>

\* Client::request on a queued connection: the request is written, and the
\* client waits in NetworkResponse::read
QueuedRequest(i, request) ==
    /\ i \in 1..Len(backlog)
    /\ backlog[i].client = "idle"
    /\ backlog' = [backlog EXCEPT ![i] = [client |-> "waiting",
                                          c2s |-> @.c2s \o NetworkRequest_write(request),
                                          asked |-> request]]
    /\ UNCHANGED <<current, serverVars>>

\* Drop for Client on a queued connection
QueuedDrop(i) ==
    /\ i \in 1..Len(backlog)
    /\ backlog[i].client = "idle"
    /\ backlog' = [backlog EXCEPT ![i] = [client |-> "dropped",
                                          c2s |-> @.c2s \o NetworkRequest_write(Disconnect),
                                          asked |-> @.asked]]
    /\ UNCHANGED <<current, serverVars>>

\* the loop of server(): handle_connection has returned, and incoming() gives
\* the oldest queued connection
ServerAccept ==
    /\ conn # "open"
    /\ backlog # <<>>
    /\ conn' = "open"
    /\ c2s' = Head(backlog).c2s
    /\ s2c' = <<>>
    /\ client' = Head(backlog).client
    /\ asked' = Head(backlog).asked
    /\ answer' = NoAnswer
    /\ backlog' = Tail(backlog)
    /\ current' = current + 1
    /\ UNCHANGED <<store_files, served>>

SecondConnects == SecondConnect /\ UNCHANGED <<docVars, applyVars, scriptVars, codecVars, bytesVars>>
QueuedRequests == (\E i \in 1..MaxConnections, request \in QueuedRequestsSet : QueuedRequest(i, request)) /\ UNCHANGED <<docVars, applyVars, scriptVars, codecVars, bytesVars>>
QueuedDrops == (\E i \in 1..MaxConnections : QueuedDrop(i)) /\ UNCHANGED <<docVars, applyVars, scriptVars, codecVars, bytesVars>>
ServerAccepts == ServerAccept /\ UNCHANGED <<docVars, applyVars, scriptVars, codecVars, bytesVars>>
CurrentRequests == (\E request \in QueuedRequestsSet : ClientRequest(request)) /\ UNCHANGED <<docVars, applyVars, scriptVars, codecVars, acceptVars, bytesVars>>

-----------------------------------------------------------------------------
(* One value written to bytes, the bytes possibly damaged, and read back *)

NotRead == [type |-> "NotRead"]
NoSubject == [type |-> "NoSubject"]

BytesIdle ==
    /\ subject = NoSubject
    /\ encoded = <<>>
    /\ decoded = NotRead

\* the revisions written: empty, with changes, with a parent, with tags
SampleRevisions ==
    {Revision_new(1), LoadedRevision(<<AddNode(1)>>), FileRevision(2),
     [FileRevision(1) EXCEPT !.tags = <<StrA, StrB>>, !.message = StrX]}

\* a revision is about to be written
RevisionInit ==
    /\ subject \in SampleRevisions
    /\ encoded = <<>>
    /\ decoded = NotRead

\* Revision::write into an empty buffer
RevisionWrite ==
    /\ encoded = <<>> /\ decoded = NotRead
    /\ encoded' = Revision_write(subject)
    /\ UNCHANGED <<subject, decoded>>

\* the stored bytes are damaged: one of the first five bytes is replaced
RevisionDamage(i, b) ==
    /\ decoded = NotRead
    /\ i <= Len(encoded) /\ encoded[i] # b
    /\ encoded' = [encoded EXCEPT ![i] = b]
    /\ UNCHANGED <<subject, decoded>>

\* the stored bytes are cut short to n bytes
RevisionTruncate(n) ==
    /\ decoded = NotRead
    /\ n < Len(encoded)
    /\ encoded' = SubSeq(encoded, 1, n)
    /\ UNCHANGED <<subject, decoded>>

\* Revision::read on the bytes
RevisionRead ==
    /\ decoded = NotRead
    /\ decoded' = Revision_read(encoded, 1)
    /\ UNCHANGED <<subject, encoded>>

\* the requests written: every variant, numbers of one, two and three VLQ
\* bytes, strings of no, one and more than 127 bytes
LongPath == [i \in 1..130 |-> 97]
SampleRequests ==
    {Disconnect}
    \cup {ListFiles(p) : p \in {PathRoot, PathF, LongPath}}
    \cup {CreateFile(p) : p \in {PathRoot, PathF, LongPath}}
    \cup {GetFileData(k, p) : k \in {0, 1, 127, 128, 20000}, p \in {PathRoot, PathF}}
    \cup {AppendFile(k, n, p, d) : k \in {0, 300}, n \in {1, 20000}, p \in {PathF},
                                    d \in {<<>>, WriteRevisions(<<FileRevision(1)>>)}}

\* the responses written
SampleResponses ==
    {ListFilesResponse(names) : names \in {<<>>, <<PathF>>, <<PathF, PathG>>, <<PathRoot, LongPath>>}}
    \cup {GetFileDataResponse(k, n, d) : k \in {0, 128}, n \in {0, 20000},
              d \in {<<>>, <<0>>, <<255, 0, 128>>, WriteRevisions(<<FileRevision(1)>>)}}
    \cup {CreateFileResponse(r) : r \in {ResultOk, ResultErr(<<>>), ResultErr(StrFileExists)}}
    \cup {AppendFileResponse(r) : r \in {ResultOk, ResultErr(<<>>), ResultErr(StrNoSuchFile)}}

Request(m) == [direction |-> "request", message |-> m]
Response(m) == [direction |-> "response", message |-> m]

\* a message is about to be written
MessageInit ==
    /\ subject \in {Request(m) : m \in SampleRequests} \cup {Response(m) : m \in SampleResponses}
    /\ encoded = <<>>
    /\ decoded = NotRead

\* NetworkRequest::write or NetworkResponse::write into an empty buffer
MessageWrite ==
    /\ encoded = <<>> /\ decoded = NotRead
    /\ encoded' = IF subject.direction = "request"
                  THEN NetworkRequest_write(subject.message)
                  ELSE NetworkResponse_write(subject.message)
    /\ UNCHANGED <<subject, decoded>>

\* NetworkRequest::read or NetworkResponse::read on the bytes written
MessageRead ==
    /\ encoded # <<>> /\ decoded = NotRead
    /\ decoded' = IF subject.direction = "request"
                  THEN NetworkRequest_read(encoded, 1)
                  ELSE NetworkResponse_read(encoded, 1)
    /\ UNCHANGED <<subject, encoded>>

\* the first byte of the written message becomes b
MessageRetag(b) ==
    /\ encoded # <<>> /\ decoded = NotRead
    /\ encoded[1] # b
    /\ encoded' = [encoded EXCEPT ![1] = b]
    /\ UNCHANGED <<subject, decoded>>

\* first bytes: the message ids, their neighbours and the ends of the byte range
TagBytes == {0, 1, 2, 3, 4, 5, 6, 127, 128, 255}

MessageRetags == (\E b \in TagBytes : MessageRetag(b)) /\ UNCHANGED <<docVars, applyVars, scriptVars, codecVars, serverVars, acceptVars>>
MessageWrites == MessageWrite /\ UNCHANGED <<docVars, applyVars, scriptVars, codecVars, serverVars, acceptVars>>
MessageReads == MessageRead /\ UNCHANGED <<docVars, applyVars, scriptVars, codecVars, serverVars, acceptVars>>

RevisionWrites == RevisionWrite /\ UNCHANGED <<docVars, applyVars, scriptVars, codecVars, serverVars, acceptVars>>
RevisionDamaged == (\E i \in 1..5, b \in {0, 103, 255} : RevisionDamage(i, b)) /\ UNCHANGED <<docVars, applyVars, scriptVars, codecVars, serverVars, acceptVars>>
RevisionTruncated == (\E n \in {2, 4, 21} : RevisionTruncate(n)) /\ UNCHANGED <<docVars, applyVars, scriptVars, codecVars, serverVars, acceptVars>>
RevisionReads == RevisionRead /\ UNCHANGED <<docVars, applyVars, scriptVars, codecVars, serverVars, acceptVars>>

-----------------------------------------------------------------------------
(* Specifications *)

vars == <<repository, nodes, pending_changes, undo_changes, panicked,
          node_id_generator, issued, store, steps,
          phase, saved, calls, redone, wire, sent, received,
          store_files, c2s, s2c, conn, client, asked, answer, served,
          backlog, current, subject, encoded, decoded>>

\* the document under add / commit / uncommit / undo / redo
Init == DocInit /\ ApplyIdle /\ ScriptIdle /\ CodecIdle /\ ServerIdle /\ AcceptIdle /\ BytesIdle
Next == DocAdd \/ DocCommit \/ DocUncommit \/ DocUndo \/ DocRedo
Spec == Init /\ [][Next]_vars

\* changes applied one after another to a node store
InitApply == DocIdle /\ ApplyInit /\ ScriptIdle /\ CodecIdle /\ ServerIdle /\ AcceptIdle /\ BytesIdle
NextApply == ApplyReturns \/ ApplyUnwinds
SpecApply == InitApply /\ [][NextApply]_vars

\* edit, undo everything, redo everything
InitUndoRedo == DocInit /\ ApplyIdle /\ ScriptIdle /\ CodecIdle /\ ServerIdle /\ AcceptIdle /\ BytesIdle
NextUndoRedo == ScriptEdit \/ ScriptStart \/ ScriptUndo \/ ScriptTurn \/ ScriptRedo
SpecUndoRedo == InitUndoRedo /\ [][NextUndoRedo]_vars

\* attributes set one after another on a new document, with commits
InitCoalesce == DocIdle /\ ApplyIdle /\ ScriptIdle /\ CodecIdle /\ ServerIdle /\ AcceptIdle /\ BytesIdle
NextCoalesce == CoalesceAdds \/ DocCommit
SpecCoalesce == InitCoalesce /\ [][NextCoalesce]_vars

\* a caller that takes ids from next_id and makes nodes with them, on a new
\* document or on one built from a repository
InitIds == DocInit /\ ApplyIdle /\ ScriptIdle /\ CodecIdle /\ ServerIdle /\ AcceptIdle /\ BytesIdle
NextIds == DocNextId \/ DocAddIssued \/ DocCommit
SpecIds == InitIds /\ [][NextIds]_vars

\* changes framed into a byte stream and read back
InitCodec == DocIdle /\ ApplyIdle /\ ScriptIdle /\ CodecInit /\ ServerIdle /\ AcceptIdle /\ BytesIdle
NextCodec == CodecWrites \/ CodecReads
SpecCodec == InitCodec /\ [][NextCodec]_vars

\* one client talking to the server over one connection
InitServer == DocIdle /\ ApplyIdle /\ ScriptIdle /\ CodecIdle /\ ServerInit /\ AcceptIdle /\ BytesIdle
NextServer == ClientRequests \/ ClientReceives \/ ClientDrops \/ ServerTurns
SpecServer == InitServer /\ [][NextServer]_vars

\* several clients connect to the server; the server runs whenever it can
InitAccept == DocIdle /\ ApplyIdle /\ ScriptIdle /\ CodecIdle /\ ServerInit /\ AcceptIdle /\ BytesIdle
NextAccept ==
    CurrentRequests \/ ClientReceives \/ ClientDrops \/ ServerTurns
    \/ SecondConnects \/ QueuedRequests \/ QueuedDrops \/ ServerAccepts
\* ServerTurn can be taken exactly when its guard holds: handle_connection is
\* total, and a turn takes bytes from c2s
ServerTurnEnabled == conn = "open" /\ c2s # <<>>
\* weak fairness of ServerTurns, its enabling condition written out
ServerTurnsFair == ([]<>~ServerTurnEnabled) \/ ([]<><<ServerTurns>>_vars)
SpecAccept ==
    InitAccept /\ [][NextAccept]_vars /\ ServerTurnsFair /\ WF_vars(ServerAccepts)

\* a revision written, its bytes damaged or not, and read
InitRevision == DocIdle /\ ApplyIdle /\ ScriptIdle /\ CodecIdle /\ ServerIdle /\ AcceptIdle /\ RevisionInit
NextRevision == RevisionWrites \/ RevisionDamaged \/ RevisionTruncated \/ RevisionReads
SpecRevision == InitRevision /\ [][NextRevision]_vars

\* a request or a response written and read back
InitMessages == DocIdle /\ ApplyIdle /\ ScriptIdle /\ CodecIdle /\ ServerIdle /\ AcceptIdle /\ MessageInit
NextMessages == MessageWrites \/ MessageReads
SpecMessages == InitMessages /\ [][NextMessages]_vars

\* a message written, its first byte replaced or not, and read
NextRetagged == MessageWrites \/ MessageRetags \/ MessageReads
SpecRetagged == InitMessages /\ [][NextRetagged]_vars

-----------------------------------------------------------------------------
(* Properties *)

\* the node store obtained by replaying repository then pending on an empty store
Replayed ==
    ReplayFrom(ChangesOf(repository) \o pending_changes.changes, NodeStore_new, FALSE).store

\* C1: after any sequence of add_and_apply_change, commit_changes,
\* uncommit_changes, undo and redo that returned, nodes equals the replay, on an
\* empty store, of every repository change and then every pending change
NodesAreReplayOfHistory == ~panicked => nodes = Replayed

\* C1 witness: committed, pending and undone changes exist, and the replay
\* gave node 1 an attribute
NodesAreReplayOfHistoryWitness ==
    /\ ~panicked
    /\ repository # <<>> /\ ChangesOf(repository) # <<>>
    /\ pending_changes.changes # <<>>
    /\ undo_changes # <<>>
    /\ Contains(nodes, 1) /\ nodes.nodes[1].attributes # <<>>

\* C2: undo until repository and pending are empty, then redo as many times,
\* gives the node store that was there before the first undo
UndoAllRedoAllRestoresNodes ==
    (phase = "redo" /\ redone = calls) => nodes = saved

\* C2 witness: three undos crossed a commit, were all redone, and the store
\* that came back holds node 1 with an attribute
UndoAllRedoAllRestoresNodesWitness ==
    /\ phase = "redo" /\ redone = calls /\ calls >= 3
    /\ pending_changes.id # Revision_new(1).id
    /\ Contains(saved, 1) /\ saved.nodes[1].attributes # <<>>
    /\ nodes = saved

\* two consecutive add_and_apply_change calls on d
AddTwice(d, c1, c2) == add_and_apply_change(add_and_apply_change(d, c1), c2)

\* the pairs (first value, second value) on one node and one attribute
SamePairs ==
    {<<SetString(n, a, v[1]), SetString(n, a, v[2])>> :
        n \in NodeIds, a \in {StrA, StrB}, v \in {<<StrX, StrY>>, <<StrY, StrX>>}}
    \cup {<<SetBool(n, a, b), SetBool(n, a, ~b)>> :
        n \in NodeIds, a \in {StrA, StrB}, b \in BOOLEAN}

\* C3: two consecutive add_and_apply_change calls with SetString (or SetBool)
\* on the same node and attribute, with no commit between them, leave one
\* pending entry for the two calls, and it carries the second value
CombineLaw ==
    ~panicked =>
        \A pr \in SamePairs :
            LET d1 == add_and_apply_change(Doc, pr[1])
                d2 == AddTwice(Doc, pr[1], pr[2])
            IN /\ Last(d1.pending_changes.changes) = pr[1]
               /\ d2.pending_changes.changes = Append(Front(d1.pending_changes.changes), pr[2])

\* C3 witness: node 1 exists, the last pending change is its AddNode, and the
\* two calls x then y add one entry and leave the attribute at y
CombineLawWitness ==
    /\ ~panicked /\ Contains(nodes, 1)
    /\ pending_changes.changes # <<>> /\ Last(pending_changes.changes).kind = "AddNode"
    /\ LET d2 == AddTwice(Doc, SetString(1, StrA, StrX), SetString(1, StrA, StrY))
       IN /\ Len(d2.pending_changes.changes) = Len(pending_changes.changes) + 1
          /\ d2.nodes.nodes[1].attributes = <<[key |-> 0, value |-> AttributeString(StrY)]>>

\* number of times id c occurs in the child list of node p
Occurrences(s, p, c) ==
    IF Contains(s, p)
    THEN Cardinality({i \in 1..Len(s.nodes[p].children) : s.nodes[p].children[i] = c})
    ELSE 0

\* C6: in every store reached by applying changes, c.parent = p exactly when
\* p.children holds c exactly once, and no child list holds an id twice
ParentChildConsistent ==
    \A p \in NodeIds \cup {ROOT_NODE} : \A c \in NodeIds \cup {ROOT_NODE} :
        /\ (Contains(store, c) /\ store.nodes[c].parent = p) <=> Occurrences(store, p, c) = 1
        /\ Occurrences(store, p, c) <= 1

\* C7: a change that fails to apply while the store is rebuilt by replay is
\* reported to the caller of Document::new, uncommit_changes, undo or redo
ReplayFailureReported ==
    ~panicked =>
        \A d \in {Document_new(repository), uncommit_changes(Doc), undo(Doc), redo(Doc)} :
            d.apply_failed => d.returned = "Err"

\* what C8 says Change::apply returns: NotFound exactly when a referenced id
\* is absent from the store, AlreadyExists exactly when AddNode names a present id
ReferencedIds(c) ==
    CASE c.kind \in {"AddNode", "RemoveNode"} -> {c.id}
      [] c.kind \in {"AddChild", "RemoveChild"} -> {c.parent, c.child}
      [] c.kind \in {"SetString", "SetBool"} -> {c.node}
      [] c.kind = "UnknownChange" -> {}

ResultByPresence(c, s) ==
    IF c.kind = "AddNode"
    THEN IF Contains(s, c.id) THEN "AlreadyExists" ELSE "Ok"
    ELSE IF \E i \in ReferencedIds(c) : ~Contains(s, i) THEN "NotFound" ELSE "Ok"

\* C8 as stated: whenever apply returns, its result is decided by the presence
\* in the store of the ids the change names
ApplyResultByPresence ==
    \A c \in AllChanges :
        Apply(c, store).result # "Panic" =>
            Apply(c, store).result = ResultByPresence(c, store)

\* C8 amended: RemoveChild is decided by the parent's child list, and AddChild
\* with an index beyond the child count does not return
ResultAmended(c, s) ==
    CASE c.kind = "RemoveChild" ->
             IF Contains(s, c.parent) /\ Occurrences(s, c.parent, c.child) > 0
             THEN "Ok" ELSE "NotFound"
      [] c.kind = "AddChild" ->
             IF ~Contains(s, c.child) \/ ~Contains(s, c.parent) THEN "NotFound"
             ELSE IF c.insertion_index > Len(s.nodes[c.parent].children) THEN "Panic"
             ELSE "Ok"
      [] OTHER -> ResultByPresence(c, s)

ApplyResultAmended ==
    \A c \in AllChanges : Apply(c, store).result = ResultAmended(c, store)

\* C8 witness: node 1 and the root are in the store, the root does not list
\* node 1, and RemoveChild(root, 1) answers NotFound; node 2 was removed while
\* node 1 still lists it, and RemoveChild(1, 2) answers Ok
ApplyResultAmendedWitness ==
    /\ steps > 0 /\ Contains(store, 1) /\ ~Contains(store, 2)
    /\ Occurrences(store, ROOT_NODE, 1) = 0
    /\ Apply(RemoveChild(ROOT_NODE, 1), store).result = "NotFound"
    /\ Occurrences(store, 1, 2) = 1
    /\ Apply(RemoveChild(1, 2), store).result = "Ok"


\* an UnknownChange whose tag Change::read would interpret
Mistagged(c) == c.kind = "UnknownChange" /\ c.change_type \in InterpretedTags

\* the i-th read gave back the i-th change written, from exactly its bytes
ReadBack(i) ==
    /\ received[i].result.ok
    /\ received[i].result.value = sent[i]
    /\ change_type(received[i].result.value) = change_type(sent[i])
    /\ Change_write(received[i].result.value) = Change_write(sent[i])
    /\ SubSeq(wire, received[i].start, received[i].end - 1) = WriteFramedChange(sent[i])

TagAt(pos) == ReadLength(wire, pos)
SizeAt(pos) == Then(TagAt(pos), LAMBDA tag, p : ReadLength(wire, p))

\* the reader stands on a complete frame whose tag is not interpreted
UnknownFrameAt(pos) ==
    /\ TagAt(pos).ok /\ SizeAt(pos).ok
    /\ TagAt(pos).value \notin InterpretedTags
    /\ SizeAt(pos).pos + SizeAt(pos).value - 1 <= Len(wire)

\* some node stores an UnknownChange may be applied to
SampleStores ==
    {NodeStore_new,
     Apply(AddNode(1), NodeStore_new).store,
     Apply(SetString(1, StrA, StrX), Apply(AddNode(1), NodeStore_new).store).store}

\* C10: a frame whose tag is not interpreted is read without error as an
\* UnknownChange holding the tag and exactly the declared number of bytes;
\* applying it returns Ok and leaves the store as it was; writing it back
\* gives the bytes that were read
UnknownChangeIsOpaque ==
    \A i \in 1..Len(received) :
        UnknownFrameAt(received[i].start) =>
            LET r == received[i].result
                tag == TagAt(received[i].start).value
                size == SizeAt(received[i].start)
            IN /\ r.ok
               /\ r.value = UnknownChange(tag, SubSeq(wire, size.pos, size.pos + size.value - 1))
               /\ received[i].end = size.pos + size.value
               /\ WriteFramedChange(r.value) = SubSeq(wire, received[i].start, received[i].end - 1)
               /\ \A s \in SampleStores : Apply(r.value, s) = Outcome(s, "Ok")

\* C10 witness: an unknown change with a two-byte tag and two payload bytes
\* was read, and the change after it was read from the right place
UnknownChangeIsOpaqueWitness ==
    /\ Len(received) = 2
    /\ sent[1] = UnknownChange(200, <<1, 255>>)
    /\ UnknownFrameAt(received[1].start)
    /\ received[1].result.ok /\ received[1].result.value = sent[1]
    /\ received[2].result.ok /\ received[2].result.value = AddNode(1)

\* C4: an AppendFile request read by the server whose `from` differs from the
\* revision count of the file is answered with an AppendFile response that
\* carries an error result, and the store is left as it was
AppendFenceMismatchIsRefused ==
    (/\ served.request.type = "AppendFile"
     /\ served.request.path \in DOMAIN served.files
     /\ Len(served.files[served.request.path]) # served.request.from)
    => /\ served.response.type = "AppendFile"
       /\ ~served.response.result.ok
       /\ store_files = served.files

\* the client's latest request has been read by the server and the call
\* Client::request has returned
Answered ==
    /\ client = "idle"
    /\ answer # NoAnswer
    /\ served.request = asked

\* C5: GetFileData(from, path) on a file of n revisions, from <= n, is answered
\* with (from, n, bytes), and the bytes read back as the revisions from..n-1
GetFileDataReturnsMissingRevisions ==
    (/\ Answered
     /\ asked.type = "GetFileData"
     /\ asked.path \in DOMAIN served.files
     /\ asked.from <= Len(served.files[asked.path]))
    => LET revisions == served.files[asked.path]
           n == Len(revisions)
       IN /\ answer.type = "GetFileData"
          /\ answer.from = asked.from
          /\ answer.to = n
          /\ ReadRevisions(answer.data, 1, <<>>)
                 = ReadOk(SubSeq(revisions, asked.from + 1, n), Len(answer.data) + 1)

GetFileDataReturnsMissingRevisionsWitness ==
    /\ Answered
    /\ asked.type = "GetFileData"
    /\ asked.path = PathF
    /\ asked.from = 1
    /\ Len(served.files[PathF]) = 3
    /\ answer.type = "GetFileData"
    /\ Len(answer.data) > 0

\* the four bytes Revision::write emits first
MagicBytes == <<67, 104, 110, 103>>

\* C11: whenever the first four bytes read are not the magic tag that
\* Revision::write emits first, Revision::read returns InvalidData and gives
\* no revision
BadMagicIsInvalidData ==
    /\ SubSeq(Revision_write(subject), 1, 4) = MagicBytes
    /\ (decoded # NotRead /\ Len(encoded) >= 4 /\ SubSeq(encoded, 1, 4) # MagicBytes)
           => decoded = ReadErr("InvalidData")

\* C11 witness: only the last byte of the tag was replaced, and the read gave
\* InvalidData
BadMagicIsInvalidDataWitness ==
    /\ decoded = ReadErr("InvalidData")
    /\ SubSeq(encoded, 1, 3) = SubSeq(MagicBytes, 1, 3)
    /\ encoded[4] = 255
    /\ SubSeq(encoded, 5, Len(encoded)) = SubSeq(Revision_write(subject), 5, Len(Revision_write(subject)))

\* C12: commit_changes immediately followed by uncommit_changes gives back
\* the pending revision (id and changes), the repository and the node store
\* that were there before the commit
CommitThenUncommitRestores ==
    ~panicked =>
        LET committed == commit_changes(Doc)
            d == uncommit_changes(committed)
        IN /\ committed.repository # repository
           /\ d.pending_changes = pending_changes
           /\ d.pending_changes.id = pending_changes.id
           /\ d.pending_changes.changes = pending_changes.changes
           /\ d.repository = repository
           /\ d.nodes = nodes
           /\ ~d.panicked

\* C12 witness: a revision is committed already, two changes are pending,
\* node 1 has an attribute, and the commit moved the pending revision into the
\* repository before uncommit took it back
CommitThenUncommitRestoresWitness ==
    /\ ~panicked
    /\ repository # <<>>
    /\ Len(pending_changes.changes) >= 2
    /\ Contains(nodes, 1) /\ nodes.nodes[1].attributes # <<>>
    /\ Last(commit_changes(Doc).repository) = pending_changes
    /\ commit_changes(Doc).pending_changes.changes = <<>>
    /\ uncommit_changes(commit_changes(Doc)).repository = repository

IdOfVariant(variant) ==
    CASE variant = "Disconnect" -> 0
      [] variant = "ListFiles" -> 1
      [] variant = "GetFileData" -> 2
      [] variant = "CreateFile" -> 3
      [] variant = "AppendFile" -> 4

\* C14: the bytes written for a request or a response begin with the id of
\* its variant, and reading them gives the message back, variant and fields,
\* having taken all the bytes
MessageRoundTrip ==
    /\ encoded # <<>> => encoded[1] = IdOfVariant(subject.message.type)
    /\ decoded # NotRead =>
           /\ decoded.ok
           /\ decoded.value.type = subject.message.type
           /\ decoded.value = subject.message
           /\ decoded.pos = Len(encoded) + 1

\* C14 witness: an AppendFile request with numbers of two and three VLQ bytes
\* and a serialized revision as data came back
MessageRoundTripWitness ==
    /\ subject = Request(AppendFile(300, 20000, PathF, WriteRevisions(<<FileRevision(1)>>)))
    /\ decoded = ReadOk(subject.message, Len(encoded) + 1)
    /\ encoded[1] = 4

\* the store fails the operation the server has read: the file to create is
\* there already, or the file to append to is missing or holds a number of
\* revisions other than `from`
StoreFails(request, fs) ==
    \/ request.type = "CreateFile" /\ request.path \in DOMAIN fs
    \/ /\ request.type = "AppendFile"
       /\ \/ request.path \notin DOMAIN fs
          \/ Len(fs[request.path]) # request.from

\* C15: when the store fails a CreateFile or an AppendFile, the server has
\* written a response of the same message id with a failure result and a
\* message, and the connection stays open for the next request
StoreFailureIsAnswered ==
    StoreFails(served.request, served.files) =>
        /\ served.response.type = served.request.type
        /\ ~served.response.result.ok
        /\ served.response.result.message # <<>>
        /\ conn = "open"

\* the connection the server has taken is open and its client is idle
OpenIdle == conn = "open" /\ client = "idle" /\ c2s = <<>>

\* connection k is queued and its client has written a request
Queued(k) ==
    /\ k > current /\ k - current <= Len(backlog)
    /\ backlog[k - current].client = "waiting"

\* the request of connection k has been read and answered
AnsweredTo(k) ==
    /\ current = k
    /\ served.request = asked
    /\ answer.type \in {"ListFiles", "GetFileData"}

\* C16: while one connection is open and idle, a request sent on another
\* connection is read and answered
SecondClientIsAnswered ==
    \A k \in 2..MaxConnections :
        (OpenIdle /\ Queued(k)) ~> (AnsweredTo(k) \/ ~OpenIdle)

\* C17: dropping a Client completes normally, also when the Disconnect
\* message cannot be written
DropCompletesNormally == client # "panicked"

\* C18: after add_and_apply_change the redo buffer is empty, whatever it held
\* and whether the change applied, failed to apply or was merged into the
\* last pending change; a redo right after it changes nothing
AddClearsRedo ==
    ~panicked =>
        \A change \in DocChanges :
            LET d == add_and_apply_change(Doc, change)
            IN /\ d.undo_changes = <<>>
               /\ ~d.panicked => redo(d) = d

\* C18 witness: the redo buffer holds a change, and of the changes a caller
\* can add one applies and is appended, one fails to apply, and one is merged
\* into the last pending change
AddClearsRedoWitness ==
    /\ ~panicked
    /\ undo_changes # <<>>
    /\ \E change \in DocChanges :
           LET d == add_and_apply_change(Doc, change)
           IN /\ ~d.apply_failed /\ ~d.panicked
              /\ d.pending_changes.changes = Append(pending_changes.changes, change)
              /\ d.undo_changes = <<>>
    /\ \E change \in DocChanges :
           LET d == add_and_apply_change(Doc, change)
           IN d.apply_failed /\ d.undo_changes = <<>>
    /\ \E change \in DocChanges :
           LET d == add_and_apply_change(Doc, change)
           IN /\ Len(d.pending_changes.changes) = Len(pending_changes.changes)
              /\ d.pending_changes.changes # pending_changes.changes
              /\ d.undo_changes = <<>>

\* C19: commit_changes appends one revision at the end of the repository,
\* holding the changes that were pending in their order; afterwards nothing is
\* pending, and the node store and the earlier revisions are as before
CommitAppendsPending ==
    ~panicked =>
        LET d == commit_changes(Doc)
        IN /\ Len(d.repository) = Len(repository) + 1
           /\ SubSeq(d.repository, 1, Len(repository)) = repository
           /\ Last(d.repository).changes = pending_changes.changes
           /\ d.pending_changes.changes = <<>>
           /\ d.nodes = nodes

\* C19 witness: one revision is committed, two changes different from its
\* changes are pending, and the commit makes them the second revision
CommitAppendsPendingWitness ==
    /\ ~panicked
    /\ Len(repository) = 1
    /\ Len(pending_changes.changes) = 2
    /\ pending_changes.changes # repository[1].changes
    /\ nodes # NodeStore_new
    /\ Len(commit_changes(Doc).repository) = 2
    /\ commit_changes(Doc).repository[2].changes = pending_changes.changes

\* C20: uncommit_changes leaves the document as it is when a change is
\* pending or the repository is empty; otherwise it removes the last revision
\* from the repository, makes it the pending revision and replays the whole
\* history into a new node store
UncommitOnlyWithoutPending ==
    ~panicked =>
        LET d == uncommit_changes(Doc)
        IN IF pending_changes.changes # <<>> \/ repository = <<>>
           THEN /\ d.repository = repository
                /\ d.pending_changes = pending_changes
                /\ d.undo_changes = undo_changes
                /\ d.nodes = nodes
           ELSE /\ d.repository = Front(repository)
                /\ d.pending_changes = Last(repository)
                /\ d.undo_changes = undo_changes
                /\ LET replay == ReplayFrom(ChangesOf(Front(repository))
                                              \o Last(repository).changes,
                                            NodeStore_new, FALSE)
                   IN IF replay.panicked THEN d.panicked ELSE d.nodes = replay.store

\* C20 witness: nothing is pending, the last committed revision holds
\* changes, and uncommit_changes makes it the pending revision
UncommitOnlyWithoutPendingWitness ==
    /\ ~panicked
    /\ pending_changes.changes = <<>>
    /\ repository # <<>>
    /\ Len(Last(repository).changes) >= 2
    /\ uncommit_changes(Doc).pending_changes.changes = Last(repository).changes
    /\ uncommit_changes(Doc).repository = <<>>
    /\ uncommit_changes(Doc).nodes # NodeStore_new

\* the node store a replay of the history of d into an empty store gives
ReplayOf(d) ==
    ReplayFrom(ChangesOf(d.repository) \o d.pending_changes.changes, NodeStore_new, FALSE)

\* C21: undo with nothing pending first takes the last revision out of the
\* repository and makes it pending; then, uncommitted or not, the last pending
\* change (when there is one) goes on top of the redo buffer and the node
\* store is the replay of the history into an empty store; the other changes
\* of an uncommitted revision stay pending and the repository stays shorter
UndoUncommitsThenMovesLast ==
    ~panicked =>
        LET uncommits == pending_changes.changes = <<>> /\ repository # <<>>
            repo == IF uncommits THEN Front(repository) ELSE repository
            pend == IF uncommits THEN Last(repository) ELSE pending_changes
            d == undo(Doc)
        IN /\ d.repository = repo
           /\ d.pending_changes.id = pend.id
           /\ IF pend.changes # <<>>
              THEN /\ d.pending_changes.changes = Front(pend.changes)
                   /\ d.undo_changes = Append(undo_changes, Last(pend.changes))
              ELSE /\ d.pending_changes.changes = <<>>
                   /\ d.undo_changes = undo_changes
           /\ IF ReplayOf(d).panicked THEN d.panicked ELSE d.nodes = ReplayOf(d).store

\* C21 witness: nothing is pending and the last revision holds two changes;
\* undo leaves the first of them pending, puts the second on the redo buffer
\* and leaves the repository without the revision
UndoUncommitsThenMovesLastWitness ==
    /\ ~panicked
    /\ pending_changes.changes = <<>>
    /\ repository # <<>>
    /\ Len(Last(repository).changes) = 2
    /\ undo(Doc).repository = Front(repository)
    /\ undo(Doc).pending_changes.changes = <<Last(repository).changes[1]>>
    /\ undo(Doc).undo_changes = Append(undo_changes, Last(repository).changes[2])
    /\ undo(Doc).nodes # nodes

\* n calls of undo, and n calls of redo, one after another
RECURSIVE UndoTimes(_, _)
UndoTimes(d, n) == IF n = 0 \/ d.panicked THEN d ELSE UndoTimes(undo(d), n - 1)
RECURSIVE RedoTimes(_, _)
RedoTimes(d, n) == IF n = 0 \/ d.panicked THEN d ELSE RedoTimes(redo(d), n - 1)

\* the changes of repository and pending revision, oldest first
History(d) == ChangesOf(d.repository) \o d.pending_changes.changes

\* C22: redo takes the change undone last, makes it the last pending change
\* and rebuilds; n undos that each undo a change, followed by n redos, put
\* the undone changes back in the order they had
RedoIsLastInFirstOut ==
    ~panicked =>
        /\ LET d == redo(Doc)
           IN IF undo_changes = <<>> THEN d = Doc
              ELSE /\ d.pending_changes.changes =
                          Append(pending_changes.changes, Last(undo_changes))
                   /\ d.undo_changes = Front(undo_changes)
                   /\ d.repository = repository
                   /\ IF ReplayOf(d).panicked THEN d.panicked
                      ELSE d.nodes = ReplayOf(d).store
        /\ \A n \in 1..MaxChanges :
               LET undone == UndoTimes(Doc, n)
                   d == RedoTimes(undone, n)
               IN (~undone.panicked /\ ~d.panicked
                   /\ Len(undone.undo_changes) = Len(undo_changes) + n)
                  => /\ History(d) = History(Doc)
                     /\ d.undo_changes = undo_changes

\* C22 witness: a change was undone before, two different changes are in the
\* history; two undos take them off, last first, and two redos put them back
RedoIsLastInFirstOutWitness ==
    /\ ~panicked
    /\ undo_changes # <<>>
    /\ Len(History(Doc)) >= 2
    /\ History(Doc)[Len(History(Doc))] # History(Doc)[Len(History(Doc)) - 1]
    /\ LET undone == UndoTimes(Doc, 2)
       IN /\ Len(undone.undo_changes) = Len(undo_changes) + 2
          /\ Last(undone.undo_changes) = History(Doc)[Len(History(Doc)) - 1]
          /\ redo(undone).pending_changes.changes = <<Last(undone.undo_changes)>>
          /\ History(RedoTimes(undone, 2)) = History(Doc)

\* both changes set a string, or both a bool, on one node and attribute
SameTarget(c, last_change) ==
    /\ c.kind \in {"SetString", "SetBool"}
    /\ last_change.kind = c.kind
    /\ last_change.node = c.node
    /\ last_change.attribute = c.attribute

\* C23: combine_change gives a replacement only for two SetString or two
\* SetBool on the same node and attribute, and add_and_apply_change compares
\* the new change with the last pending change only: in every other case the
\* list of pending changes grows by the new change
CoalescingLooksAtLastPendingOnly ==
    /\ \A c \in CoalesceChanges, last_change \in CoalesceChanges :
           combine_change(c, last_change) # None <=> SameTarget(c, last_change)
    /\ \A c \in CoalesceChanges :
           LET pend == pending_changes.changes
               d == add_and_apply_change(Doc, c)
           IN IF pend # <<>> /\ SameTarget(c, Last(pend))
              THEN d.pending_changes.changes = Append(Front(pend), c)
              ELSE d.pending_changes.changes = Append(pend, c)

\* C23 witness: a string of an attribute was committed, the same attribute
\* was set again and then a bool; a further bool replaces the last pending
\* change, and a string for that attribute is appended
CoalescingLooksAtLastPendingOnlyWitness ==
    /\ repository # <<>>
    /\ Last(repository).changes = <<SetString(1, StrA, StrX)>>
    /\ pending_changes.changes = <<SetString(1, StrA, StrY), SetBool(1, StrA, TRUE)>>
    /\ add_and_apply_change(Doc, SetBool(1, StrA, FALSE)).pending_changes.changes
           = <<SetString(1, StrA, StrY), SetBool(1, StrA, FALSE)>>
    /\ Len(add_and_apply_change(Doc, SetString(1, StrA, StrX)).pending_changes.changes) = 3
    /\ Len(add_and_apply_change(Doc, SetBool(1, StrB, TRUE)).pending_changes.changes) = 3

\* C24: NetworkRequest::read gives InvalidData and no message for a first
\* byte outside 0..4, NetworkResponse::read for a first byte outside 1..4
UnknownMessageIdIsInvalidData ==
    (decoded # NotRead /\ encoded # <<>>) =>
        LET known == IF subject.direction = "request"
                     THEN {DISCONNECT, LIST_FILES, GET_FILE_DATA, CREATE_FILE, APPEND_FILE}
                     ELSE {LIST_FILES, GET_FILE_DATA, CREATE_FILE, APPEND_FILE}
        IN encoded[1] \notin known =>
               /\ ~decoded.ok
               /\ decoded = ReadErr("InvalidData")

\* C24 witness: the bytes of a ListFiles response with the first byte 0, the
\* id of Disconnect, were read as a response
UnknownMessageIdIsInvalidDataWitness ==
    /\ subject = Response(ListFilesResponse(<<PathF, PathG>>))
    /\ encoded # <<>>
    /\ encoded[1] = DISCONNECT
    /\ decoded = ReadErr("InvalidData")

\* C25: the turn of the server's loop that read a ListFiles, CreateFile,
\* GetFileData or AppendFile request wrote one response of the same message id
EveryRequestReadIsAnswered ==
    served.request.type \in {"ListFiles", "CreateFile", "GetFileData", "AppendFile"}
    => /\ served.response # NoResponse
       /\ served.response.type = served.request.type

\* C26: handle_connection returns Ok only after reading Disconnect, without
\* a response, and returns Err only when reading a request from the stream
\* failed; a request the store fails does not end the loop
LoopEndsOnDisconnectOrStreamFailure ==
    /\ conn = "Ok" => (served.request = Disconnect /\ served.response = NoResponse)
    /\ conn = "Err" => served.request = NoRequest

\* C27: as_journal on a GetFileData response gives a journal of the revisions
\* its payload holds, in their order and nothing else; on every other
\* response it gives InvalidData
AsJournalHoldsPayloadRevisions ==
    /\ \A response \in SampleResponses :
           response.type # "GetFileData" => as_journal(response) = ReadErr("InvalidData")
    /\ (client = "idle" /\ answer.type \in {"ListFiles", "CreateFile", "AppendFile"})
           => as_journal(answer) = ReadErr("InvalidData")
    /\ (Answered /\ answer.type = "GetFileData") =>
           /\ as_journal(answer).ok
           /\ as_journal(answer).value
                  = SubSeq(served.files[asked.path], answer.from + 1, answer.to)
           /\ WriteRevisions(as_journal(answer).value) = answer.data

\* C27 witness: the answer to GetFileData from revision 1 of a file of three
\* revisions became a journal of the second and the third revision
AsJournalHoldsPayloadRevisionsWitness ==
    /\ Answered
    /\ answer.type = "GetFileData"
    /\ answer.from = 1 /\ answer.to = 3
    /\ as_journal(answer).ok
    /\ as_journal(answer).value = <<FileRevision(2), FileRevision(3)>>

\* a sequence read from its last entry to its first
Reversed(s) == [i \in 1..Len(s) |-> s[Len(s) + 1 - i]]

\* every change the document holds: the repository's in revision order, the
\* pending ones, and the redo buffer from its last entry to its first
FullHistory(d) == History(d) \o Reversed(d.undo_changes)

\* C28: commit_changes, uncommit_changes, undo and redo leave the full
\* history of changes as it was
FullHistoryIsKept ==
    ~panicked =>
        /\ FullHistory(commit_changes(Doc)) = FullHistory(Doc)
        /\ FullHistory(uncommit_changes(Doc)) = FullHistory(Doc)
        /\ FullHistory(undo(Doc)) = FullHistory(Doc)
        /\ FullHistory(redo(Doc)) = FullHistory(Doc)

\* C28 witness: with a committed change, a pending change and an undone
\* change, each of the four calls moves a change or a revision and the full
\* history is the same three changes
FullHistoryIsKeptWitness ==
    /\ ~panicked
    /\ ChangesOf(repository) # <<>>
    /\ pending_changes.changes # <<>>
    /\ undo_changes # <<>>
    /\ Len(FullHistory(Doc)) = 3
    /\ undo(Doc).undo_changes # undo_changes
    /\ redo(Doc).undo_changes # undo_changes
    /\ commit_changes(Doc).repository # repository
    /\ FullHistory(undo(Doc)) = FullHistory(Doc)
    /\ FullHistory(redo(Doc)) = FullHistory(Doc)

\* C29: whenever Change::apply returns an error, the node store is the one
\* it was called with
ApplyErrorLeavesStore ==
    \A c \in AllChanges :
        Apply(c, store).result \notin {"Ok", "Panic"} => Apply(c, store).store = store

\* C30: the id next_id returns is not the id of a node in the node store
\* and has not been returned before
NextIdIsFresh ==
    ~panicked =>
        LET id == next_id(node_id_generator).id
        IN /\ ~Contains(nodes, id)
           /\ \A i \in 1..Len(issued) : issued[i] # id

\* C31: AddChild with a present parent and a present child returns for every
\* insertion_index; with an index up to the child count the child is at that
\* position afterwards and the other children keep their order
AddChildAlwaysReturns ==
    \A c \in AllChanges :
        (c.kind = "AddChild" /\ Contains(store, c.parent) /\ Contains(store, c.child)) =>
            LET before == store.nodes[c.parent].children
                after == Apply(c, store).store.nodes[c.parent].children
            IN /\ Apply(c, store).result # "Panic"
               /\ c.insertion_index <= Len(before) =>
                      /\ after[c.insertion_index + 1] = c.child
                      /\ RemoveAt(after, c.insertion_index) = before


\* the document as the caller has it, and after one more commit_changes
CommittedOrNot == {Doc, commit_changes(Doc)}

\* C32: whenever repository and pending hold at least one change, one call of
\* undo moves exactly one change to the redo buffer, also when the last
\* revision was committed with no pending changes
UndoMovesOneChange ==
    \A d \in CommittedOrNot :
        (~d.panicked /\ HistoryLen(d) >= 1 /\ ~undo(d).panicked) =>
            /\ Len(undo(d).undo_changes) = Len(d.undo_changes) + 1
            /\ HistoryLen(undo(d)) = HistoryLen(d) - 1

\* the document read from the bytes Document::write gives for the document
Reopened == Document_read(Document_write(Doc))

\* C33: Document::write persists the committed revisions only: the document
\* read from the written bytes has the same repository, no pending changes,
\* an empty redo buffer and the node store of the committed revisions' replay
WriteKeepsCommittedOnly ==
    ~panicked =>
        /\ Reopened.ok
        /\ Reopened.pos = Len(Document_write(Doc)) + 1
        /\ Reopened.value.repository = repository
        /\ Reopened.value.pending_changes.changes = <<>>
        /\ Reopened.value.undo_changes = <<>>
        /\ IF compute_nodes(repository).panicked THEN Reopened.value.panicked
           ELSE Reopened.value.nodes = compute_nodes(repository).store

\* C33 witness: a committed AddNode, a pending change and an undone change;
\* the document read back holds the committed revision only and its node
\* store differs from the one in memory
WriteKeepsCommittedOnlyWitness ==
    /\ ~panicked
    /\ ChangesOf(repository) = <<AddNode(1)>>
    /\ pending_changes.changes # <<>>
    /\ undo_changes # <<>>
    /\ Reopened.ok
    /\ Reopened.value.repository = repository
    /\ Reopened.value.pending_changes.changes = <<>>
    /\ Reopened.value.undo_changes = <<>>
    /\ Reopened.value.nodes # nodes
    /\ Contains(Reopened.value.nodes, 1)

====
